---- MODULE Spec2Model ----
(***************************************************************************)
(* Model of the Claude Subagent Generator.                                 *)
(*                                                                         *)
(*   main process   src/src/main/ipcHandlers.js (lines 1-408): the rate    *)
(*                  limiter, the validators, the error sanitizer and the   *)
(*                  nine IPC handlers                                      *)
(*   renderer       src/src/renderer/hooks/useAgentGenerator.js and the    *)
(*                  DocumentUpload component that drives addDocument       *)
(*   services       src/src/renderer/services/agentGenerator.js            *)
(*                                                                         *)
(* Strings that the code inspects character by character (error messages,  *)
(* agent types) are sequences of one-character strings.  Time is the value *)
(* of Date.now() in milliseconds; the clock is taken to be monotonic.      *)
(***************************************************************************)
EXTENDS Integers, Sequences, FiniteSets, TLC

VARIABLES
    \* main process (ipcHandlers.js)
    now,            \* Date.now()
    rateLimitMap,   \* channel -> sequence of recorded timestamps (a channel
                    \* the Map does not hold yet reads as the empty list)
    admitted,       \* history: channel -> the admissions of the preceding
                    \* RATE_LIMIT_WINDOW ms, kept by the clock and not by the code
    lastCall,       \* what the most recent IPC handler invocation did
    focus,          \* the channels the renderer invokes in this run
    \* renderer (useAgentGenerator.js, DocumentUpload)
    loading,        \* useState(false)
    error,          \* useState(null)
    generatedAgent, \* useState(null)
    templateData,   \* useState({ 8 categories of 12 strings })
    documents,      \* useState([])
    uploads,        \* the handleFileSelect runs that wait for processPDF
    \* services (agentGenerator.js)
    analysis,       \* what analyzeInputData returned for templateData and documents
    estimate,       \* what estimateComplexity returned for them
    generation,     \* the generateSubagent call: where it stands, what it called
    saving,         \* the saveAgent calls of the hook: in flight, and returned
    \* renderer (useTheme.js)
    theme,          \* useState('dark')
    initialLoadRef, \* useRef(true), its current
    settingsCalls,  \* window.electronAPI as useTheme sees it: whether it is
                    \* there, the loadSettings call and the toggles made with
                    \* their saveSettings calls
    \* services (pdfParser.js, TemplateProcessor)
    items,          \* the argument of deduplicateAndRank
    ranked,         \* what deduplicateAndRank returned for it
    template,       \* the template and metadata given to fillTemplate
    filledTemplate  \* what fillTemplate returned for them and templateData

ipcVars == <<now, rateLimitMap, admitted, lastCall, focus>>

hookVars == <<loading, error, generatedAgent, templateData, documents, uploads>>

serviceVars == <<analysis, estimate, generation, saving>>

themeVars == <<theme, initialLoadRef, settingsCalls>>

toolVars == <<items, ranked, template, filledTemplate>>

vars == <<now, rateLimitMap, admitted, lastCall, focus,
          loading, error, generatedAgent, templateData, documents, uploads,
          analysis, estimate, generation, saving,
          theme, initialLoadRef, settingsCalls, items, ranked, template, filledTemplate>>

----------------------------------------------------------------------------
(* Bounds of the model *)

\* the clock advances in steps of TickMs, at most MaxTicks times
TickMs == 30000

MaxTicks == 3

\* in the runs that mix two channels, no request is admitted any more once
\* rateLimitMap holds MaxRecorded timestamps in all
MaxRecorded == 6

\* and the clock advances at most MixTicks times
MixTicks == 1

\* the template form holds at most MaxFilled filled slots, and a file is
\* selected in it while fewer than MaxFormDocuments documents are present
MaxFilled == 2

MaxFormDocuments == 1

\* a selection in the file dialog holds at most MaxSelect PDF files, and at
\* most MaxUploads selections are being processed at a time
MaxSelect == 2

MaxUploads == 1

\* analyzeInputData is applied to template data with up to MaxFields filled
\* fields, BlankFields fields of white space, and up to MaxAnalyzedDocuments
\* documents
MaxFields == 52

BlankFields == 2

MaxAnalyzedDocuments == 6
\* the longest documents list a save or a removal starts from
MaxListed == 3
\* the toggleTheme calls of a run
MaxToggles == 3
\* the addDocument calls in flight at a time, when calls overlap
MaxOverlap == 2
\* the lists given to deduplicateAndRank: the length of the lists of few
\* items, and the different strings and the repeated ones of the long lists
MaxItems == 4
MaxKeys == 12
MaxRepeats == 3

----------------------------------------------------------------------------
(* Fixed texts *)

\* 'Rate limit exceeded. Please try again later.', 'An error occurred',
\* '[path]' and '1.0.0'
Text ==
    [RateLimit |->
         <<"R","a","t","e"," ","l","i","m","i","t"," ","e","x","c","e","e","d","e","d","."," ",
         "P","l","e","a","s","e"," ","t","r","y"," ","a","g","a","i","n"," ","l","a","t","e",
         "r",".">>,
     DefaultError |->
         <<"A","n"," ","e","r","r","o","r"," ","o","c","c","u","r","r","e","d">>,
     PathReplacement |->
         <<"[","p","a","t","h","]">>,
     FallbackVersion |->
         <<"1",".","0",".","0">>]

----------------------------------------------------------------------------
(* The state of useAgentGenerator: useAgentGenerator.js lines 4-17 *)

\* null, and a value that is not null
Null == [null |-> TRUE]

Some(v) == [null |-> FALSE, value |-> v]

Categories ==
    {"coreFunctions", "domainExpertise", "inputTypes", "validationRules",
     "outputFormat", "performanceConstraints", "styleGuide", "integrationTargets"}

SLOTS == 12

\* Array(12).fill('') , indexed from 0
EmptyCategory == [i \in 0..(SLOTS - 1) |-> << >>]

EmptyTemplateData == [c \in Categories |-> EmptyCategory]

HookInit ==
    /\ loading = FALSE
    /\ error = Null
    /\ generatedAgent = Null
    /\ templateData = EmptyTemplateData
    /\ documents = << >>
    /\ uploads = << >>
    /\ analysis = Null
    /\ estimate = Null
    /\ generation = Null
    /\ saving = Null
    /\ theme = "dark"
    /\ initialLoadRef = TRUE
    /\ settingsCalls = Null
    /\ items = << >>
    /\ ranked = Null
    /\ template = Null
    /\ filledTemplate = Null

----------------------------------------------------------------------------
(* Rate limiting: ipcHandlers.js lines 24-67 *)

RATE_LIMIT_WINDOW == 60000

RATE_LIMITS ==
    [c \in {"save-agent", "load-agents", "get-existing-agents", "process-pdf",
            "load-settings", "save-settings", "load-template", "consult-agent",
            "get-app-version"} |->
        CASE c = "save-agent" -> 10
          [] c = "load-agents" -> 20
          [] c = "get-existing-agents" -> 20
          [] c = "process-pdf" -> 5
          [] c = "load-settings" -> 30
          [] c = "save-settings" -> 20
          [] c = "load-template" -> 10
          [] c = "consult-agent" -> 30
          [] c = "get-app-version" -> 60]

\* the channels setupIpcHandlers registers
Channels == DOMAIN RATE_LIMITS

DEFAULT_LIMIT == 10

\* const limit = RATE_LIMITS[channel] || 10
LimitOf(channel) ==
    IF channel \in DOMAIN RATE_LIMITS /\ RATE_LIMITS[channel] # 0
    THEN RATE_LIMITS[channel]
    ELSE DEFAULT_LIMIT

\* the filter with <= for < : a request stays counted one millisecond longer
ValidRequestsInclusive(requests, t) ==
    SelectSeq(requests, LAMBDA timestamp : t - timestamp <= RATE_LIMIT_WINDOW)

\* requests.filter(timestamp => now - timestamp < RATE_LIMIT_WINDOW)
ValidRequests(requests, t) ==
    SelectSeq(requests, LAMBDA timestamp : t - timestamp < RATE_LIMIT_WINDOW)

\* the limit test with > for >= : one request more than the limit gets through
isRateLimitedOffByOne(map, channel, t) ==
    Len(ValidRequests(map[channel], t)) > LimitOf(channel)

\* the value isRateLimited(channel) returns at time t
isRateLimited(map, channel, t) ==
    Len(ValidRequests(map[channel], t)) >= LimitOf(channel)

\* one list shared by all channels in place of one list per channel
RecordRequestShared(map, channel, t) ==
    [c \in DOMAIN map |->
        IF isRateLimited(map, channel, t)
        THEN ValidRequests(map[c], t)
        ELSE Append(ValidRequests(map[c], t), t)]

\* rateLimitMap after isRateLimited(channel) at time t: the filtered list is
\* stored, and the request is pushed on it when it is admitted
RecordRequest(map, channel, t) ==
    [map EXCEPT ![channel] =
        IF isRateLimited(map, channel, t)
        THEN ValidRequests(map[channel], t)
        ELSE Append(ValidRequests(map[channel], t), t)]

----------------------------------------------------------------------------
(* Error message sanitizer: ipcHandlers.js lines 194-205 *)

UpperCaseLetters ==
    {"A", "B", "C", "D", "E", "F", "G", "H", "I", "J", "K", "L", "M",
     "N", "O", "P", "Q", "R", "S", "T", "U", "V", "W", "X", "Y", "Z"}

LowerCaseLetters ==
    {"a", "b", "c", "d", "e", "f", "g", "h", "i", "j", "k", "l", "m",
     "n", "o", "p", "q", "r", "s", "t", "u", "v", "w", "x", "y", "z"}

Digits == {"0", "1", "2", "3", "4", "5", "6", "7", "8", "9"}

\* \s
IsSpace(c) == c \in {" ", "\t", "\n", "\r"}

\* what . does not match
IsLineTerminator(c) == c \in {"\n", "\r"}

\* \w
IsWordChar(c) == c \in UpperCaseLetters \cup LowerCaseLetters \cup Digits \cup {"_"}

\* the least element of a set of indices, or otherwise when it is empty
FirstIndex(S, otherwise) ==
    IF S = {} THEN otherwise ELSE CHOOSE x \in S : \A y \in S : x <= y

\* [^\s]+ , \s+ , .* and \d+ are greedy: the last index of the longest run of
\* such characters that starts at i (i - 1 when the run is empty)
NonSpaceRunEnd(s, i) ==
    FirstIndex({k \in i..Len(s) : IsSpace(s[k])}, Len(s) + 1) - 1

SpaceRunEnd(s, i) ==
    FirstIndex({k \in i..Len(s) : ~IsSpace(s[k])}, Len(s) + 1) - 1

LineEnd(s, i) ==
    FirstIndex({k \in i..Len(s) : IsLineTerminator(s[k])}, Len(s) + 1) - 1

DigitRunEnd(s, i) ==
    FirstIndex({k \in i..Len(s) : s[k] \notin Digits}, Len(s) + 1) - 1

\* .replace(/\/[^\s]+/g, '[path]')
RECURSIVE ReplaceUnixPaths(_, _)
ReplaceUnixPaths(s, i) ==
    IF i > Len(s) THEN << >>
    ELSE IF s[i] = "/" /\ i < Len(s) /\ ~IsSpace(s[i + 1])
         THEN Text.PathReplacement \o ReplaceUnixPaths(s, NonSpaceRunEnd(s, i + 1) + 1)
         ELSE <<s[i]>> \o ReplaceUnixPaths(s, i + 1)

\* .replace(/[A-Z]:\\[^\s]+/g, '[path]')
RECURSIVE ReplaceWindowsPaths(_, _)
ReplaceWindowsPaths(s, i) ==
    IF i > Len(s) THEN << >>
    ELSE IF /\ s[i] \in UpperCaseLetters
            /\ i + 3 <= Len(s)
            /\ s[i + 1] = ":"
            /\ s[i + 2] = "\\"
            /\ ~IsSpace(s[i + 3])
         THEN Text.PathReplacement \o ReplaceWindowsPaths(s, NonSpaceRunEnd(s, i + 3) + 1)
         ELSE <<s[i]>> \o ReplaceWindowsPaths(s, i + 1)

\* .replace(/\bat\s+.*$/gm, '')
RECURSIVE RemoveStackLocations(_, _)
RemoveStackLocations(s, i) ==
    IF i > Len(s) THEN << >>
    ELSE IF /\ i = 1 \/ ~IsWordChar(s[i - 1])
            /\ s[i] = "a"
            /\ i + 2 <= Len(s)
            /\ s[i + 1] = "t"
            /\ IsSpace(s[i + 2])
         THEN RemoveStackLocations(s, LineEnd(s, SpaceRunEnd(s, i + 2) + 1) + 1)
         ELSE <<s[i]>> \o RemoveStackLocations(s, i + 1)

\* the index of the ")" that ends a match of :\d+:\d+\) starting at the ":"
\* at j, or 0 when there is none
LineColumnEnd(s, j) ==
    LET d1 == DigitRunEnd(s, j + 1)
        d2 == DigitRunEnd(s, d1 + 2)
    IN  IF /\ s[j] = ":"
           /\ d1 >= j + 1
           /\ d1 + 1 <= Len(s)
           /\ s[d1 + 1] = ":"
           /\ d2 >= d1 + 2
           /\ d2 + 1 <= Len(s)
           /\ s[d2 + 1] = ")"
        THEN d2 + 1
        ELSE 0

\* .replace(/\(.*?:\d+:\d+\)/g, '') ; .*? is lazy: the first ":" that works
RECURSIVE RemoveLineColumnRefs(_, _)
RemoveLineColumnRefs(s, i) ==
    IF i > Len(s) THEN << >>
    ELSE LET starts == {j \in (i + 1)..LineEnd(s, i + 1) + 1 :
                            j <= Len(s) /\ LineColumnEnd(s, j) # 0}
         IN  IF s[i] = "(" /\ starts # {}
             THEN RemoveLineColumnRefs(s, LineColumnEnd(s, FirstIndex(starts, 0)) + 1)
             ELSE <<s[i]>> \o RemoveLineColumnRefs(s, i + 1)

\* String.prototype.trim
Trim(s) ==
    LET keep == {k \in 1..Len(s) : ~IsSpace(s[k])}
    IN  IF keep = {} THEN << >>
        ELSE SubSeq(s, FirstIndex(keep, 1),
                    CHOOSE x \in keep : \A y \in keep : y <= x)

\* the sanitizer without its final || 'An error occurred'
sanitizeWithoutFallback(errorMessage) ==
    LET message == IF errorMessage = << >> THEN Text.DefaultError ELSE errorMessage
    IN  Trim(RemoveLineColumnRefs(
                RemoveStackLocations(
                    ReplaceWindowsPaths(
                        ReplaceUnixPaths(message, 1), 1), 1), 1))

\* sanitizeErrorMessage(error), for an error whose message is the string given
sanitizeErrorMessage(errorMessage) ==
    LET message == IF errorMessage = << >> THEN Text.DefaultError ELSE errorMessage
        sanitized ==
            RemoveLineColumnRefs(
                RemoveStackLocations(
                    ReplaceWindowsPaths(
                        ReplaceUnixPaths(message, 1), 1), 1), 1)
    IN  IF Trim(sanitized) = << >> THEN Text.DefaultError ELSE Trim(sanitized)

----------------------------------------------------------------------------
(* The messages of the errors the validators and the handlers throw:
   ipcHandlers.js lines 79-185 and 391-397 *)

\* the message of each error, by the name used for it below
Msg ==
    [\* 'Invalid agent data: must be an object'
     AgentDataNotObject |->
        <<"I","n","v","a","l","i","d"," ","a","g","e","n","t"," ","d","a","t","a",":"," ","m",
         "u","s","t"," ","b","e"," ","a","n"," ","o","b","j","e","c","t">>,
     \* 'Invalid agent data: name is required and must be a string'
     AgentNameRequired |->
        <<"I","n","v","a","l","i","d"," ","a","g","e","n","t"," ","d","a","t","a",":"," ","n",
         "a","m","e"," ","i","s"," ","r","e","q","u","i","r","e","d"," ","a","n","d"," ","m",
         "u","s","t"," ","b","e"," ","a"," ","s","t","r","i","n","g">>,
     \* 'Invalid agent data: name too long (max 200 characters)'
     AgentNameTooLong |->
        <<"I","n","v","a","l","i","d"," ","a","g","e","n","t"," ","d","a","t","a",":"," ","n",
         "a","m","e"," ","t","o","o"," ","l","o","n","g"," ","(","m","a","x"," ","2","0","0",
         " ","c","h","a","r","a","c","t","e","r","s",")">>,
     \* 'Invalid agent data: content is required and must be a string'
     AgentContentRequired |->
        <<"I","n","v","a","l","i","d"," ","a","g","e","n","t"," ","d","a","t","a",":"," ","c",
         "o","n","t","e","n","t"," ","i","s"," ","r","e","q","u","i","r","e","d"," ","a","n",
         "d"," ","m","u","s","t"," ","b","e"," ","a"," ","s","t","r","i","n","g">>,
     \* 'Invalid agent data: content too large (max 1MB)'
     AgentContentTooLarge |->
        <<"I","n","v","a","l","i","d"," ","a","g","e","n","t"," ","d","a","t","a",":"," ","c",
         "o","n","t","e","n","t"," ","t","o","o"," ","l","a","r","g","e"," ","(","m","a","x",
         " ","1","M","B",")">>,
     \* 'Invalid agent data: metadata must be an object'
     AgentMetadataNotObject |->
        <<"I","n","v","a","l","i","d"," ","a","g","e","n","t"," ","d","a","t","a",":"," ","m",
         "e","t","a","d","a","t","a"," ","m","u","s","t"," ","b","e"," ","a","n"," ","o","b",
         "j","e","c","t">>,
     \* 'Invalid settings: must be an object'
     SettingsNotObject |->
        <<"I","n","v","a","l","i","d"," ","s","e","t","t","i","n","g","s",":"," ","m","u","s",
         "t"," ","b","e"," ","a","n"," ","o","b","j","e","c","t">>,
     \* 'Invalid settings: theme must be "light" or "dark"'
     SettingsTheme |->
        <<"I","n","v","a","l","i","d"," ","s","e","t","t","i","n","g","s",":"," ","t","h","e",
         "m","e"," ","m","u","s","t"," ","b","e"," ","\"","l","i","g","h","t","\""," ","o","r",
         " ","\"","d","a","r","k","\"">>,
     \* 'Invalid settings: autoSave must be a boolean'
     SettingsAutoSave |->
        <<"I","n","v","a","l","i","d"," ","s","e","t","t","i","n","g","s",":"," ","a","u","t",
         "o","S","a","v","e"," ","m","u","s","t"," ","b","e"," ","a"," ","b","o","o","l","e",
         "a","n">>,
     \* 'Invalid settings: consultAgents must be a boolean'
     SettingsConsultAgents |->
        <<"I","n","v","a","l","i","d"," ","s","e","t","t","i","n","g","s",":"," ","c","o","n",
         "s","u","l","t","A","g","e","n","t","s"," ","m","u","s","t"," ","b","e"," ","a"," ",
         "b","o","o","l","e","a","n">>,
     \* 'Invalid file path: must be a string'
     PathNotString |->
        <<"I","n","v","a","l","i","d"," ","f","i","l","e"," ","p","a","t","h",":"," ","m","u",
         "s","t"," ","b","e"," ","a"," ","s","t","r","i","n","g">>,
     \* 'Invalid file path: must be absolute'
     PathNotAbsolute |->
        <<"I","n","v","a","l","i","d"," ","f","i","l","e"," ","p","a","t","h",":"," ","m","u",
         "s","t"," ","b","e"," ","a","b","s","o","l","u","t","e">>,
     \* 'Invalid file path: not a file'
     PathNotFile |->
        <<"I","n","v","a","l","i","d"," ","f","i","l","e"," ","p","a","t","h",":"," ","n","o",
         "t"," ","a"," ","f","i","l","e">>,
     \* 'File too large: maximum 10MB allowed'
     FileTooLarge |->
        <<"F","i","l","e"," ","t","o","o"," ","l","a","r","g","e",":"," ","m","a","x","i","m",
         "u","m"," ","1","0","M","B"," ","a","l","l","o","w","e","d">>,
     \* 'File not found'
     FileNotFound |->
        <<"F","i","l","e"," ","n","o","t"," ","f","o","u","n","d">>,
     \* 'Invalid agent type: must be a non-empty string'
     AgentTypeNotString |->
        <<"I","n","v","a","l","i","d"," ","a","g","e","n","t"," ","t","y","p","e",":"," ","m",
         "u","s","t"," ","b","e"," ","a"," ","n","o","n","-","e","m","p","t","y"," ","s","t",
         "r","i","n","g">>,
     \* 'Invalid agent type: too long (max 100 characters)'
     AgentTypeTooLong |->
        <<"I","n","v","a","l","i","d"," ","a","g","e","n","t"," ","t","y","p","e",":"," ","t",
         "o","o"," ","l","o","n","g"," ","(","m","a","x"," ","1","0","0"," ","c","h","a","r",
         "a","c","t","e","r","s",")">>,
     \* 'Invalid agent type: only alphanumeric, hyphens, and underscores allowed'
     AgentTypeUnsafe |->
        <<"I","n","v","a","l","i","d"," ","a","g","e","n","t"," ","t","y","p","e",":"," ","o",
         "n","l","y"," ","a","l","p","h","a","n","u","m","e","r","i","c",","," ","h","y","p",
         "h","e","n","s",","," ","a","n","d"," ","u","n","d","e","r","s","c","o","r","e","s",
         " ","a","l","l","o","w","e","d">>,
     \* 'Invalid query: must be a non-empty string'
     QueryNotString |->
        <<"I","n","v","a","l","i","d"," ","q","u","e","r","y",":"," ","m","u","s","t"," ","b",
         "e"," ","a"," ","n","o","n","-","e","m","p","t","y"," ","s","t","r","i","n","g">>,
     \* 'Query too long: maximum 10,000 characters allowed'
     QueryTooLong |->
        <<"Q","u","e","r","y"," ","t","o","o"," ","l","o","n","g",":"," ","m","a","x","i","m",
         "u","m"," ","1","0",",","0","0","0"," ","c","h","a","r","a","c","t","e","r","s"," ",
         "a","l","l","o","w","e","d">>]

----------------------------------------------------------------------------
(* Failures of the environment (FileManager, fs, pdf-parse, electron): an
   Error with one of these messages, the empty message included *)

\* 'EACCES: permission denied, open '/etc/secret.pdf'',
\* 'at load (C:\app\main.js:10:5)' and 'Invalid PDF structure'
Err ==
    [PermissionDenied |->
         <<"E","A","C","C","E","S",":"," ","p","e","r","m","i","s","s","i","o","n"," ","d","e",
         "n","i","e","d",","," ","o","p","e","n"," ","'","/","e","t","c","/","s","e","c","r",
         "e","t",".","p","d","f","'">>,
     StackOnly |->
         <<"a","t"," ","l","o","a","d"," ","(","C",":","\\","a","p","p","\\","m","a","i","n",".",
         "j","s",":","1","0",":","5",")">>,
     InvalidPdf |->
         <<"I","n","v","a","l","i","d"," ","P","D","F"," ","s","t","r","u","c","t","u","r","e">>,
     \* 'C:(a:1:2)\key', a drive path with a line:column reference inside
     SplitPath |->
         <<"C",":","(","a",":","1",":","2",")","\\","k","e","y">>]

ThrownMessages ==
    {<< >>, Err.PermissionDenied, Err.StackOnly, Err.InvalidPdf, Err.SplitPath}

----------------------------------------------------------------------------
(* Input validation: ipcHandlers.js lines 75-186.  A validator returns
   [ok |-> TRUE], or [ok |-> FALSE, message |-> m] for throw new Error(m). *)

Ok == [ok |-> TRUE]

Throw(m) == [ok |-> FALSE, message |-> m]

MAX_NAME_LENGTH == 200

MAX_CONTENT_LENGTH == 1000000

MAX_FILE_SIZE == 10485760

MAX_AGENT_TYPE_LENGTH == 100

MAX_QUERY_LENGTH == 10000

\* A JavaScript value of which only the type and, for a string, the length
\* matter
JsString(n) == [type |-> "string", length |-> n]

JsOther(t) == [type |-> t, length |-> 0]

\* !v for such a value: undefined, null and the empty string are falsy
Falsy(v) == v.type \in {"undefined", "null"} \/ (v.type = "string" /\ v.length = 0)

AgentData(n, c, m) == [type |-> "object", name |-> n, content |-> c, metadata |-> m]

\* the agentData values the renderer may send (type is typeof agentData, with
\* "null" for null): a valid object, each field varied in turn, and an object
\* with every field wrong
AgentDataInputs ==
    {JsOther("null"), JsString(5)} \cup
    { AgentData(n, JsString(1), JsOther("undefined")) :
        n \in {JsOther("undefined"), JsOther("number"), JsString(0), JsString(1),
               JsString(MAX_NAME_LENGTH), JsString(MAX_NAME_LENGTH + 1)} } \cup
    { AgentData(JsString(1), c, JsOther("undefined")) :
        c \in {JsOther("undefined"), JsOther("number"), JsString(0),
               JsString(MAX_CONTENT_LENGTH), JsString(MAX_CONTENT_LENGTH + 1)} } \cup
    { AgentData(JsString(1), JsString(1), m) :
        m \in {JsOther("null"), JsOther("object"), JsString(0), JsString(3)} } \cup
    { AgentData(JsString(MAX_NAME_LENGTH + 1), JsOther("undefined"), JsString(3)) }

validateAgentData(agentData) ==
    IF agentData.type # "object"
    THEN Throw(Msg.AgentDataNotObject)
    ELSE IF Falsy(agentData.name) \/ agentData.name.type # "string"
    THEN Throw(Msg.AgentNameRequired)
    ELSE IF agentData.name.length > MAX_NAME_LENGTH
    THEN Throw(Msg.AgentNameTooLong)
    ELSE IF Falsy(agentData.content) \/ agentData.content.type # "string"
    THEN Throw(Msg.AgentContentRequired)
    ELSE IF agentData.content.length > MAX_CONTENT_LENGTH
    THEN Throw(Msg.AgentContentTooLarge)
    ELSE IF ~Falsy(agentData.metadata) /\ agentData.metadata.type # "object"
    THEN Throw(Msg.AgentMetadataNotObject)
    ELSE Ok

Settings(th, a, c) == [type |-> "object", theme |-> th, autoSave |-> a, consultAgents |-> c]

\* the settings values the renderer may send: theme is a string, or "undefined"
\* when absent; a flag is "undefined", "boolean" or the type of another value
SettingsInputs ==
    {JsOther("null"), JsString(4)} \cup
    { Settings(th, "undefined", "undefined") :
        th \in {"undefined", "", "light", "dark", "blue"} } \cup
    { Settings("dark", a, "boolean") : a \in {"boolean", "string"} } \cup
    { Settings("light", "boolean", c) : c \in {"undefined", "number"} } \cup
    { Settings("blue", "string", "number"), Settings("undefined", "string", "number") }

validateSettings(settings) ==
    IF settings.type # "object"
    THEN Throw(Msg.SettingsNotObject)
    ELSE IF settings.theme \notin {"undefined", ""} /\ settings.theme \notin {"light", "dark"}
    THEN Throw(Msg.SettingsTheme)
    ELSE IF settings.autoSave \notin {"undefined", "boolean"}
    THEN Throw(Msg.SettingsAutoSave)
    ELSE IF settings.consultAgents \notin {"undefined", "boolean"}
    THEN Throw(Msg.SettingsConsultAgents)
    ELSE Ok

\* what fs.stat(filePath) does: rejects with ENOENT, rejects with another
\* error, or resolves to stats
StatOutcomes ==
    {[kind |-> "ENOENT"]} \cup
    {[kind |-> "error", message |-> m] : m \in {Err.PermissionDenied}} \cup
    {[kind |-> "stats", isFile |-> f, size |-> n] :
        f \in BOOLEAN, n \in {0, MAX_FILE_SIZE, MAX_FILE_SIZE + 1}}

\* file paths: a non-string, the empty string, a relative and an absolute path
FilePathInputs ==
    {[type |-> "undefined", length |-> 0, absolute |-> FALSE],
     [type |-> "number", length |-> 0, absolute |-> FALSE],
     [type |-> "string", length |-> 0, absolute |-> FALSE],
     [type |-> "string", length |-> 5, absolute |-> FALSE],
     [type |-> "string", length |-> 6, absolute |-> TRUE]}

\* validatePdfPath(filePath), stat being what fs.stat does for that path
validatePdfPath(filePath, stat) ==
    IF Falsy(filePath) \/ filePath.type # "string"
    THEN Throw(Msg.PathNotString)
    ELSE IF ~filePath.absolute
    THEN Throw(Msg.PathNotAbsolute)
    ELSE IF stat.kind = "ENOENT"
    THEN Throw(Msg.FileNotFound)
    ELSE IF stat.kind = "error"
    THEN Throw(stat.message)
    ELSE IF ~stat.isFile
    THEN Throw(Msg.PathNotFile)
    ELSE IF stat.size > MAX_FILE_SIZE
    THEN Throw(Msg.FileTooLarge)
    ELSE Ok

\* whether validatePdfPath gets as far as calling fs.stat
StatsFile(filePath) ==
    ~Falsy(filePath) /\ filePath.type = "string" /\ filePath.absolute

\* /^[a-zA-Z0-9-_]+$/
SafeAgentTypeChars == UpperCaseLetters \cup LowerCaseLetters \cup Digits \cup {"-", "_"}

Repeat(c, n) == [i \in 1..n |-> c]

\* agent types: a non-string (chars is then empty) or a string, as its characters
AgentTypeInputs ==
    {[type |-> "undefined", chars |-> << >>], [type |-> "number", chars |-> << >>]} \cup
    { [type |-> "string", chars |-> s] :
        s \in {<< >>,
               <<"q", "a">>,
               <<"c", "o", "d", "e", "-", "r", "e", "v", "i", "e", "w", "e", "r">>,
               <<"A", "_", "9">>,
               <<".", ".", "/", "x">>,
               <<"a", ".", "b">>,
               <<"a", "\\", "b">>,
               <<"a", " ", "b">>,
               <<"a", "\n">>,
               Repeat("a", MAX_AGENT_TYPE_LENGTH),
               Repeat("a", MAX_AGENT_TYPE_LENGTH + 1),
               Repeat("/", MAX_AGENT_TYPE_LENGTH + 1)} }

\* validateAgentType without the test of the characters
validateAgentTypeAnyChars(agentType) ==
    IF agentType.type # "string" \/ agentType.chars = << >>
    THEN Throw(Msg.AgentTypeNotString)
    ELSE IF Len(agentType.chars) > MAX_AGENT_TYPE_LENGTH
    THEN Throw(Msg.AgentTypeTooLong)
    ELSE Ok

validateAgentType(agentType) ==
    IF agentType.type # "string" \/ agentType.chars = << >>
    THEN Throw(Msg.AgentTypeNotString)
    ELSE IF Len(agentType.chars) > MAX_AGENT_TYPE_LENGTH
    THEN Throw(Msg.AgentTypeTooLong)
    ELSE IF \E k \in 1..Len(agentType.chars) : agentType.chars[k] \notin SafeAgentTypeChars
    THEN Throw(Msg.AgentTypeUnsafe)
    ELSE Ok

QueryInputs ==
    {JsOther("undefined"), JsOther("object"), JsString(0), JsString(1),
     JsString(MAX_QUERY_LENGTH), JsString(MAX_QUERY_LENGTH + 1)}

\* the checks the consult-agent handler makes on query itself (lines 391-397)
validateQuery(query) ==
    IF Falsy(query) \/ query.type # "string"
    THEN Throw(Msg.QueryNotString)
    ELSE IF query.length > MAX_QUERY_LENGTH
    THEN Throw(Msg.QueryTooLong)
    ELSE Ok

----------------------------------------------------------------------------
(* The IPC handlers: ipcHandlers.js lines 207-406 *)

\* a channel RATE_LIMITS does not list
UnlistedChannel == "unlisted-channel"

AllChannels == Channels \cup {UnlistedChannel}

\* what a call of FileManager, fs.readFile, pdf-parse or app.getVersion does:
\* it returns, or it throws an Error
CallOutcomes == {Ok} \cup {Throw(m) : m \in ThrownMessages}

\* app.getVersion(): the version of the package (README badge)
AppVersion == <<"1", ".", "0", ".", "0">>

\* { success: false, error: 'Rate limit exceeded. Please try again later.' }
RateLimited == [kind |-> "object", success |-> FALSE, error |-> Text.RateLimit]

\* the messages of the errors a handler can catch
CaughtMessages ==
    ThrownMessages \cup {Msg[name] : name \in DOMAIN Msg}

\* sanitizeErrorMessage, tabulated over those messages
SanitizedMessage == [m \in CaughtMessages |-> sanitizeErrorMessage(m)]

\* { success: false, error: sanitizeErrorMessage(error) }
Failure(message) ==
    [kind |-> "object", success |-> FALSE, error |-> SanitizedMessage[message]]

\* { success: true, ... } ; carries names what the object carries besides
Success(carries) == [kind |-> "object", success |-> TRUE, carries |-> carries]

\* the same with settings: {} added (load-settings)
WithEmptySettings(result) ==
    [kind |-> "object", success |-> FALSE, error |-> result.error, settings |-> "{}"]

\* a handler's run after the rate limit check: the validators and outside
\* calls it made, in order, and the value it resolves to
Reply(calls, result) == [calls |-> calls, result |-> result]

\* One invocation of the handler of a channel: isRateLimited(channel) runs
\* first and updates rateLimitMap, then the handler does what reply says.
Handle(channel, reply) ==
    /\ rateLimitMap' = RecordRequest(rateLimitMap, channel, now)
    /\ admitted' = IF isRateLimited(rateLimitMap, channel, now)
                   THEN admitted
                   ELSE [admitted EXCEPT ![channel] = Append(@, now)]
    /\ lastCall' = [channel |-> channel,
                    blocked |-> isRateLimited(rateLimitMap, channel, now),
                    calls |-> reply.calls,
                    result |-> reply.result]
    /\ UNCHANGED <<now, focus>>
    /\ UNCHANGED <<hookVars, serviceVars, themeVars, toolVars>>

\* save-agent saving what it was given without validating it
SaveAgentUnvalidated ==
    \/ /\ isRateLimited(rateLimitMap, "save-agent", now)
       /\ Handle("save-agent", Reply(<< >>, RateLimited))
    \/ /\ ~isRateLimited(rateLimitMap, "save-agent", now)
       /\ \E saved \in CallOutcomes :
            Handle("save-agent",
                Reply(<<"fileManager.saveAgent">>,
                      IF saved.ok THEN Success("result") ELSE Failure(saved.message)))

SaveAgentHandler ==
    \/ /\ isRateLimited(rateLimitMap, "save-agent", now)
       /\ Handle("save-agent", Reply(<< >>, RateLimited))
    \/ /\ ~isRateLimited(rateLimitMap, "save-agent", now)
       /\ \E agentData \in AgentDataInputs :
            LET valid == validateAgentData(agentData)
            IN  \/ /\ ~valid.ok
                   /\ Handle("save-agent",
                          Reply(<<"validateAgentData">>, Failure(valid.message)))
                \/ /\ valid.ok
                   /\ \E saved \in CallOutcomes :
                        Handle("save-agent",
                            Reply(<<"validateAgentData", "fileManager.saveAgent">>,
                                  IF saved.ok THEN Success("result")
                                  ELSE Failure(saved.message)))

LoadAgentsHandler ==
    \/ /\ isRateLimited(rateLimitMap, "load-agents", now)
       /\ Handle("load-agents", Reply(<< >>, RateLimited))
    \/ /\ ~isRateLimited(rateLimitMap, "load-agents", now)
       /\ \E loaded \in CallOutcomes :
            Handle("load-agents",
                Reply(<<"fileManager.loadGeneratedAgents">>,
                      IF loaded.ok THEN Success("agents") ELSE Failure(loaded.message)))

GetExistingAgentsHandler ==
    \/ /\ isRateLimited(rateLimitMap, "get-existing-agents", now)
       /\ Handle("get-existing-agents", Reply(<< >>, RateLimited))
    \/ /\ ~isRateLimited(rateLimitMap, "get-existing-agents", now)
       /\ \E loaded \in CallOutcomes :
            Handle("get-existing-agents",
                Reply(<<"fileManager.loadExistingAgents">>,
                      IF loaded.ok THEN Success("agents") ELSE Failure(loaded.message)))

\* process-pdf validating the path before it checks the rate limit
ProcessPdfValidatesFirst ==
    \E filePath \in FilePathInputs :
        \E stat \in IF StatsFile(filePath) THEN StatOutcomes ELSE {[kind |-> "ENOENT"]} :
            LET valid == validatePdfPath(filePath, stat)
                validation == IF StatsFile(filePath)
                              THEN <<"validatePdfPath", "fs.stat">>
                              ELSE <<"validatePdfPath">>
            IN  Handle("process-pdf",
                    IF ~valid.ok THEN Reply(validation, Failure(valid.message))
                    ELSE IF isRateLimited(rateLimitMap, "process-pdf", now)
                    THEN Reply(validation, RateLimited)
                    ELSE Reply(validation \o <<"fs.readFile", "pdfParse">>,
                               Success("text, pages, info")))

ProcessPdfHandler ==
    \/ /\ isRateLimited(rateLimitMap, "process-pdf", now)
       /\ Handle("process-pdf", Reply(<< >>, RateLimited))
    \/ /\ ~isRateLimited(rateLimitMap, "process-pdf", now)
       /\ \E filePath \in FilePathInputs :
            \E stat \in IF StatsFile(filePath) THEN StatOutcomes ELSE {[kind |-> "ENOENT"]} :
                LET valid == validatePdfPath(filePath, stat)
                    validation == IF StatsFile(filePath)
                                  THEN <<"validatePdfPath", "fs.stat">>
                                  ELSE <<"validatePdfPath">>
                IN  \/ /\ ~valid.ok
                       /\ Handle("process-pdf", Reply(validation, Failure(valid.message)))
                    \/ /\ valid.ok
                       /\ \E read \in CallOutcomes :
                            \/ /\ ~read.ok
                               /\ Handle("process-pdf",
                                      Reply(validation \o <<"fs.readFile">>,
                                            Failure(read.message)))
                            \/ /\ read.ok
                               /\ \E parsed \in CallOutcomes :
                                    Handle("process-pdf",
                                        Reply(validation \o <<"fs.readFile", "pdfParse">>,
                                              IF parsed.ok
                                              THEN Success("text, pages, info")
                                              ELSE Failure(parsed.message)))

LoadSettingsHandler ==
    \/ /\ isRateLimited(rateLimitMap, "load-settings", now)
       /\ Handle("load-settings", Reply(<< >>, WithEmptySettings(RateLimited)))
    \/ /\ ~isRateLimited(rateLimitMap, "load-settings", now)
       /\ \E loaded \in CallOutcomes :
            Handle("load-settings",
                Reply(<<"fileManager.loadSettings">>,
                      IF loaded.ok THEN Success("settings")
                      ELSE WithEmptySettings(Failure(loaded.message))))

SaveSettingsHandler ==
    \/ /\ isRateLimited(rateLimitMap, "save-settings", now)
       /\ Handle("save-settings", Reply(<< >>, RateLimited))
    \/ /\ ~isRateLimited(rateLimitMap, "save-settings", now)
       /\ \E settings \in SettingsInputs :
            LET valid == validateSettings(settings)
            IN  \/ /\ ~valid.ok
                   /\ Handle("save-settings",
                          Reply(<<"validateSettings">>, Failure(valid.message)))
                \/ /\ valid.ok
                   /\ \E saved \in CallOutcomes :
                        Handle("save-settings",
                            Reply(<<"validateSettings", "fileManager.saveSettings">>,
                                  IF saved.ok THEN Success("") ELSE Failure(saved.message)))

LoadTemplateHandler ==
    \/ /\ isRateLimited(rateLimitMap, "load-template", now)
       /\ Handle("load-template", Reply(<< >>, RateLimited))
    \/ /\ ~isRateLimited(rateLimitMap, "load-template", now)
       /\ \E loaded \in CallOutcomes :
            Handle("load-template",
                Reply(<<"fileManager.loadTemplate">>,
                      IF loaded.ok THEN Success("template") ELSE Failure(loaded.message)))

\* returns the version string itself, the fallback '1.0.0' when
\* app.getVersion throws, and the rate limit object when rate limited
GetAppVersionHandler ==
    \/ /\ isRateLimited(rateLimitMap, "get-app-version", now)
       /\ Handle("get-app-version", Reply(<< >>, RateLimited))
    \/ /\ ~isRateLimited(rateLimitMap, "get-app-version", now)
       /\ \E version \in CallOutcomes :
            Handle("get-app-version",
                Reply(<<"app.getVersion">>,
                      [kind |-> "string",
                       value |-> IF version.ok THEN AppVersion ELSE Text.FallbackVersion]))

\* lines 381-405: the handler, called with agentType and query
ConsultAgent(agentType, query) ==
    \/ /\ isRateLimited(rateLimitMap, "consult-agent", now)
       /\ Handle("consult-agent", Reply(<< >>, RateLimited))
    \/ /\ ~isRateLimited(rateLimitMap, "consult-agent", now)
       /\ LET validType == validateAgentType(agentType)
              validQuery == validateQuery(query)
          IN  \/ /\ ~validType.ok
                 /\ Handle("consult-agent",
                        Reply(<<"validateAgentType">>, Failure(validType.message)))
              \/ /\ validType.ok
                 /\ ~validQuery.ok
                 /\ Handle("consult-agent",
                        Reply(<<"validateAgentType">>, Failure(validQuery.message)))
              \/ /\ validType.ok
                 /\ validQuery.ok
                 /\ \E consulted \in CallOutcomes :
                        Handle("consult-agent",
                            Reply(<<"validateAgentType", "fileManager.consultAgent">>,
                                  IF consulted.ok THEN Success("response")
                                  ELSE Failure(consulted.message)))

\* the requests made: the handler reads query only once agentType has passed
\* validateAgentType (lines 389-394), so one query stands for all of them with
\* an agentType that does not pass
ConsultAgentHandler ==
    \E agentType \in AgentTypeInputs :
        \E query \in IF validateAgentType(agentType).ok THEN QueryInputs
                      ELSE {JsOther("undefined")} :
            ConsultAgent(agentType, query)

\* isRateLimited called for a channel the table does not list (line 46)
UnlistedChannelRequest ==
    Handle(UnlistedChannel,
        IF isRateLimited(rateLimitMap, UnlistedChannel, now)
        THEN Reply(<< >>, RateLimited)
        ELSE Reply(<< >>, Success("")))

\* Time passes: Date.now() grows by TickMs.  The history forgets the
\* admissions that are RATE_LIMIT_WINDOW ms old or older.
Tick ==
    /\ now < MaxTicks * TickMs
    /\ now' = now + TickMs
    /\ admitted' = [c \in AllChannels |->
                      SelectSeq(admitted[c], LAMBDA t : now' - t < RATE_LIMIT_WINDOW)]
    /\ UNCHANGED <<rateLimitMap, lastCall, focus>>
    /\ UNCHANGED <<hookVars, serviceVars, themeVars, toolVars>>

----------------------------------------------------------------------------
(* The main process alone, the renderer invoking one channel (any of them) *)

NoCall == [channel |-> "none", blocked |-> FALSE, calls |-> << >>, result |-> [kind |-> "none"]]

InitIpc ==
    /\ now = 0
    /\ rateLimitMap = [c \in AllChannels |-> << >>]
    /\ admitted = [c \in AllChannels |-> << >>]
    /\ lastCall = NoCall
    /\ focus \in {{c} : c \in AllChannels}
    /\ HookInit

Handlers ==
    \/ "save-agent" \in focus /\ SaveAgentHandler
    \/ "load-agents" \in focus /\ LoadAgentsHandler
    \/ "get-existing-agents" \in focus /\ GetExistingAgentsHandler
    \/ "process-pdf" \in focus /\ ProcessPdfHandler
    \/ "load-settings" \in focus /\ LoadSettingsHandler
    \/ "save-settings" \in focus /\ SaveSettingsHandler
    \/ "load-template" \in focus /\ LoadTemplateHandler
    \/ "get-app-version" \in focus /\ GetAppVersionHandler
    \/ "consult-agent" \in focus /\ ConsultAgentHandler
    \/ UnlistedChannel \in focus /\ UnlistedChannelRequest

NextIpc == Tick \/ Handlers

SpecIpc == InitIpc /\ [][NextIpc]_vars

\* the renderer invoking consult-agent only, request after request
InitConsult ==
    /\ now = 0
    /\ rateLimitMap = [c \in AllChannels |-> << >>]
    /\ admitted = [c \in AllChannels |-> << >>]
    /\ lastCall = NoCall
    /\ focus = {"consult-agent"}
    /\ HookInit

SpecConsult == InitConsult /\ [][ConsultAgentHandler]_vars

Spec == SpecIpc

----------------------------------------------------------------------------
(* The main process, the renderer invoking process-pdf (the channel with the
   smallest quota) and one other channel in any order *)

\* the number of timestamps rateLimitMap holds
RECURSIVE TotalRecorded(_, _)
TotalRecorded(map, channels) ==
    IF channels = {} THEN 0
    ELSE LET c == CHOOSE x \in channels : TRUE
         IN  Len(map[c]) + TotalRecorded(map, channels \ {c})

InitIpcMix ==
    /\ now = 0
    /\ rateLimitMap = [c \in AllChannels |-> << >>]
    /\ admitted = [c \in AllChannels |-> << >>]
    /\ lastCall = NoCall
    /\ focus \in {{"process-pdf", c} : c \in AllChannels \ {"process-pdf"}}
    /\ HookInit

NextIpcMix ==
    \/ now < MixTicks * TickMs /\ Tick
    \/ /\ Handlers
       /\ TotalRecorded(rateLimitMap, AllChannels) < MaxRecorded \/ lastCall'.blocked

SpecIpcMix == InitIpcMix /\ [][NextIpcMix]_vars

----------------------------------------------------------------------------
(* useAgentGenerator: useAgentGenerator.js lines 19-131, and the
   handleFileSelect loop of DocumentUpload that calls addDocument.  State
   updates are applied in the order they are issued; the updates whose result
   depends on the previous state are functional updates in the code.  The
   text of a template field is a sequence of characters; names, paths and
   messages, which the hook only passes on, are strings. *)

MAX_DOCUMENTS == 12

\* an entry of event.target.files
File(name, type) == [name |-> name, path |-> "/docs/" \o name, type |-> type]

\* window.electronAPI.processPDF resolves with a result object or rejects
ProcessPdfOutcomes ==
    {[kind |-> "resolved", success |-> TRUE, text |-> "Sample PDF text", pages |-> 5],
     [kind |-> "resolved", success |-> FALSE, error |-> "File not found"],
     [kind |-> "rejected", message |-> "IPC error"]}

\* updateTemplateField, had it assigned prev[category][index] = value
updateTemplateFieldAssign(category, index, value) ==
    /\ templateData' = [templateData EXCEPT ![category] =
           [i \in (DOMAIN @) \cup {index} |-> IF i = index THEN value ELSE @[i]]]
    /\ UNCHANGED <<loading, error, generatedAgent, documents, uploads>>
    /\ UNCHANGED <<ipcVars, serviceVars, themeVars, toolVars>>

\* updateTemplateField, had it rebuilt the category from an empty array
updateTemplateFieldFromEmpty(category, index, value) ==
    /\ templateData' = [templateData EXCEPT ![category] =
           [i \in DOMAIN @ |-> IF i = index THEN value ELSE << >>]]
    /\ UNCHANGED <<loading, error, generatedAgent, documents, uploads>>
    /\ UNCHANGED <<ipcVars, serviceVars, themeVars, toolVars>>

\* lines 19-24: { ...prev, [category]: prev[category].map((item, i) =>
\* (i === index ? value : item)) }
updateTemplateField(category, index, value) ==
    /\ templateData' = [templateData EXCEPT ![category] =
           [i \in DOMAIN @ |-> IF i = index THEN value ELSE @[i]]]
    /\ UNCHANGED <<loading, error, generatedAgent, documents, uploads>>
    /\ UNCHANGED <<ipcVars, serviceVars, themeVars, toolVars>>

\* prev.filter((_, i) => i !== index), positions counted from 0
WithoutIndex(list, index) ==
    LET kept == SelectSeq([k \in 1..Len(list) |-> k], LAMBDA k : k - 1 # index)
    IN  [j \in 1..Len(kept) |-> list[kept[j]]]

\* removeDocument, had it used prev.splice(index, 1), which counts a negative
\* index from the end
removeDocumentSplice(index) ==
    /\ documents' = WithoutIndex(documents, IF index < 0 THEN Len(documents) + index ELSE index)
    /\ UNCHANGED <<loading, error, generatedAgent, templateData, uploads>>
    /\ UNCHANGED <<ipcVars, serviceVars, themeVars, toolVars>>

\* lines 60-62
removeDocument(index) ==
    /\ documents' = WithoutIndex(documents, index)
    /\ UNCHANGED <<loading, error, generatedAgent, templateData, uploads>>
    /\ UNCHANGED <<ipcVars, serviceVars, themeVars, toolVars>>

\* resetForm without its setError(null)
resetFormKeepsError ==
    /\ templateData' = EmptyTemplateData
    /\ documents' = << >>
    /\ generatedAgent' = Null
    /\ UNCHANGED <<loading, error, uploads>>
    /\ UNCHANGED <<ipcVars, serviceVars, themeVars, toolVars>>

\* lines 117-131
resetForm ==
    /\ templateData' = EmptyTemplateData
    /\ documents' = << >>
    /\ generatedAgent' = Null
    /\ error' = Null
    /\ UNCHANGED <<loading, uploads>>
    /\ UNCHANGED <<ipcVars, serviceVars, themeVars, toolVars>>

\* lines 64-90: nothing is awaited, so the call runs to its end in one step
\* (setLoading(true), setError(null), setGeneratedAgent, setLoading(false));
\* the timestamp of the agent data is left out
generateAgent(agentName, agentType) ==
    /\ generatedAgent' = Some([name |-> agentName, type |-> agentType,
                               templateData |-> templateData, documents |-> documents])
    /\ error' = Null
    /\ loading' = FALSE
    /\ UNCHANGED <<templateData, documents, uploads>>
    /\ UNCHANGED <<ipcVars, serviceVars, themeVars, toolVars>>

\* the files of a selection from the first PDF on: handleFileSelect passes
\* over the files whose type is not 'application/pdf' (part_008 line 24)
RECURSIVE FromNextPdf(_)
FromNextPdf(files) ==
    IF files = << >> THEN << >>
    ELSE IF Head(files).type = "application/pdf" THEN files
    ELSE FromNextPdf(Tail(files))

\* part_008 lines 20-36 and useAgentGenerator.js lines 26-35: the change event
\* of the file input.  handleFileSelect runs up to its first await that does
\* not settle at once, the processPDF call of the first PDF.  The addDocument
\* it calls, and calls again for every later file of the selection, is the one
\* of the render the handler was created in, whose documents.length is the
\* length the list has now.  An upload in flight holds that length and the
\* files from the one being processed on.
handleFileSelect(files) ==
    LET pending == FromNextPdf(files)
    IN  /\ IF pending = << >> THEN
               UNCHANGED <<loading, error, uploads>>
           ELSE IF Len(documents) >= MAX_DOCUMENTS THEN
               /\ error' = Some("Maximum 12 documents allowed")
               /\ UNCHANGED <<loading, uploads>>
           ELSE
               /\ loading' = TRUE
               /\ uploads' = Append(uploads, [documentsLength |-> Len(documents),
                                              files |-> pending])
               /\ UNCHANGED error
        /\ UNCHANGED <<generatedAgent, templateData, documents>>
        /\ UNCHANGED <<ipcVars, serviceVars, themeVars, toolVars>>

\* addDocument without the setError(result.error) of its else branch
processPdfSettlesSilent(k, outcome) ==
    LET upload == uploads[k]
        file == Head(upload.files)
        pending == FromNextPdf(Tail(upload.files))
        added == outcome.kind = "resolved" /\ outcome.success
        settledError == IF added THEN Null
                        ELSE IF outcome.kind = "resolved" THEN error
                        ELSE Some(outcome.message)
    IN  /\ documents' = IF added
                        THEN Append(documents, [name |-> file.name, path |-> file.path,
                                                text |-> outcome.text, pages |-> outcome.pages])
                        ELSE documents
        /\ IF pending = << >> THEN
               /\ error' = settledError
               /\ loading' = FALSE
               /\ uploads' = WithoutIndex(uploads, k - 1)
           ELSE IF upload.documentsLength >= MAX_DOCUMENTS THEN
               /\ error' = Some("Maximum 12 documents allowed")
               /\ loading' = FALSE
               /\ uploads' = WithoutIndex(uploads, k - 1)
           ELSE
               /\ error' = settledError
               /\ loading' = TRUE
               /\ uploads' = [uploads EXCEPT ![k].files = pending]
        /\ UNCHANGED <<generatedAgent, templateData>>
        /\ UNCHANGED <<ipcVars, serviceVars, themeVars, toolVars>>

\* addDocument, had it set the list from the documents of its own render,
\* setDocuments([...documents, doc]): the documents there were when the call
\* started, as far as they are still there
processPdfSettlesStale(k, outcome) ==
    LET upload == uploads[k]
        file == Head(upload.files)
        pending == FromNextPdf(Tail(upload.files))
        added == outcome.kind = "resolved" /\ outcome.success
        settledError == IF added THEN Null
                        ELSE IF outcome.kind = "resolved" THEN Some(outcome.error)
                        ELSE Some(outcome.message)
        stale == SubSeq(documents, 1,
                        IF upload.documentsLength < Len(documents)
                        THEN upload.documentsLength ELSE Len(documents))
    IN  /\ documents' = IF added
                        THEN Append(stale, [name |-> file.name, path |-> file.path,
                                            text |-> outcome.text, pages |-> outcome.pages])
                        ELSE documents
        /\ IF pending = << >> THEN
               /\ error' = settledError
               /\ loading' = FALSE
               /\ uploads' = WithoutIndex(uploads, k - 1)
           ELSE IF upload.documentsLength >= MAX_DOCUMENTS THEN
               /\ error' = Some("Maximum 12 documents allowed")
               /\ loading' = FALSE
               /\ uploads' = WithoutIndex(uploads, k - 1)
           ELSE
               /\ error' = settledError
               /\ loading' = TRUE
               /\ uploads' = [uploads EXCEPT ![k].files = pending]
        /\ UNCHANGED <<generatedAgent, templateData>>
        /\ UNCHANGED <<ipcVars, serviceVars, themeVars, toolVars>>

\* useAgentGenerator.js lines 37-55 and the next turn of the loop: processPDF
\* settles for upload k, addDocument finishes, and handleFileSelect goes on to
\* the next PDF of the selection with the same addDocument
processPdfSettles(k, outcome) ==
    LET upload == uploads[k]
        file == Head(upload.files)
        pending == FromNextPdf(Tail(upload.files))
        added == outcome.kind = "resolved" /\ outcome.success
        settledError == IF added THEN Null
                        ELSE IF outcome.kind = "resolved" THEN Some(outcome.error)
                        ELSE Some(outcome.message)
    IN  /\ documents' = IF added
                        THEN Append(documents, [name |-> file.name, path |-> file.path,
                                                text |-> outcome.text, pages |-> outcome.pages])
                        ELSE documents
        /\ IF pending = << >> THEN
               /\ error' = settledError
               /\ loading' = FALSE
               /\ uploads' = WithoutIndex(uploads, k - 1)
           ELSE IF upload.documentsLength >= MAX_DOCUMENTS THEN
               /\ error' = Some("Maximum 12 documents allowed")
               /\ loading' = FALSE
               /\ uploads' = WithoutIndex(uploads, k - 1)
           ELSE
               /\ error' = settledError
               /\ loading' = TRUE
               /\ uploads' = [uploads EXCEPT ![k].files = pending]
        /\ UNCHANGED <<generatedAgent, templateData>>
        /\ UNCHANGED <<ipcVars, serviceVars, themeVars, toolVars>>

----------------------------------------------------------------------------
(* The renderer alone: the template form, with a little document activity *)

IpcIdle ==
    /\ now = 0
    /\ rateLimitMap = [c \in AllChannels |-> << >>]
    /\ admitted = [c \in AllChannels |-> << >>]
    /\ lastCall = NoCall
    /\ focus = {}

\* the number of template slots that are not the empty string
FilledSlots(data) ==
    Cardinality({slot \in Categories \X (0..(SLOTS - 1)) : data[slot[1]][slot[2]] # << >>})

\* the slots the form writes: the first slot of every category, and in one
\* category the last slot and the indices next to the array on either side
FormSlots ==
    {<<category, 0>> : category \in Categories}
        \cup ({"integrationTargets"} \X {-1, SLOTS - 1, SLOTS})

FormValues == {<< >>, <<"v">>}

InitRenderer == IpcIdle /\ HookInit

UpdateTemplateField ==
    LET filled == FilledSlots(templateData)
    IN  \E slot \in FormSlots, value \in FormValues :
            /\ \/ filled < MaxFilled
               \/ value = << >>
               \/ slot[2] \in 0..(SLOTS - 1) /\ templateData[slot[1]][slot[2]] # << >>
            /\ updateTemplateField(slot[1], slot[2], value)

RemoveDocument == \E index \in -1..Len(documents) : removeDocument(index)

\* the agent is generated before the form is filled in, so that the agent data
\* held in generatedAgent stays small
GenerateAgent ==
    /\ templateData = EmptyTemplateData
    /\ \E agentName \in {"my-agent"}, agentType \in {"backend-developer"} :
           generateAgent(agentName, agentType)

ProcessPdfSettles ==
    \E k \in 1..Len(uploads), outcome \in ProcessPdfOutcomes : processPdfSettles(k, outcome)

FormFileSelect ==
    \E files \in {<<File("a.pdf", "application/pdf")>>} :
        /\ uploads = << >>
        /\ Len(documents) < MaxFormDocuments
        /\ handleFileSelect(files)

NextForm ==
    \/ UpdateTemplateField
    \/ resetForm
    \/ GenerateAgent
    \/ FormFileSelect
    \/ ProcessPdfSettles
    \/ RemoveDocument

SpecForm == InitRenderer /\ [][NextForm]_vars

----------------------------------------------------------------------------
(* The renderer alone: document upload *)

\* n PDF files
RECURSIVE PdfFiles(_)
PdfFiles(n) == IF n = 0 THEN << >> ELSE Append(PdfFiles(n - 1), File("a.pdf", "application/pdf"))

\* what the user picks in the file dialog (the input is `multiple`)
UploadSelections ==
    {PdfFiles(n) : n \in 1..MaxSelect}
        \cup {<<File("notes.txt", "text/plain")>>,
              <<File("notes.txt", "text/plain"), File("a.pdf", "application/pdf")>>}

UploadFileSelect ==
    \E files \in UploadSelections :
        /\ Len(uploads) < MaxUploads
        /\ handleFileSelect(files)

NextUpload ==
    \/ UploadFileSelect
    \/ ProcessPdfSettles
    \/ RemoveDocument
    \/ resetForm

SpecUpload == InitRenderer /\ [][NextUpload]_vars

----------------------------------------------------------------------------
(* HeadArchitectAgent: agentGenerator.js lines 64-119 *)

\* Object.values(templateData) lists the categories in the order of their keys
CategoryOrder ==
    <<"coreFunctions", "domainExpertise", "inputTypes", "validationRules",
      "outputFormat", "performanceConstraints", "styleGuide", "integrationTargets">>

\* an array (indexed from 0) as a sequence
ArrayToSeq(array) == [k \in 1..Cardinality(DOMAIN array) |-> array[k - 1]]

\* category.filter((f) => f.trim()).length : the empty string is falsy
FilledCount(category) ==
    Len(SelectSeq(ArrayToSeq(category), LAMBDA f : Trim(f) # << >>))

\* Object.values(templateData).reduce((sum, category) => sum + ..., 0)
RECURSIVE SumFilled(_, _)
SumFilled(data, k) ==
    IF k = 0 THEN 0
    ELSE SumFilled(data, k - 1) + FilledCount(data[CategoryOrder[k]])

\* documents.reduce((sum, doc) => sum + doc.pages, 0)
RECURSIVE SumPages(_, _)
SumPages(docs, k) ==
    IF k = 0 THEN 0 ELSE SumPages(docs, k - 1) + docs[k].pages

UpperCase ==
    <<"A", "B", "C", "D", "E", "F", "G", "H", "I", "J", "K", "L", "M",
      "N", "O", "P", "Q", "R", "S", "T", "U", "V", "W", "X", "Y", "Z">>

LowerCase ==
    <<"a", "b", "c", "d", "e", "f", "g", "h", "i", "j", "k", "l", "m",
      "n", "o", "p", "q", "r", "s", "t", "u", "v", "w", "x", "y", "z">>

toLowerCase(text) ==
    [k \in 1..Len(text) |->
        IF text[k] \in UpperCaseLetters
        THEN LowerCase[CHOOSE n \in 1..26 : UpperCase[n] = text[k]]
        ELSE text[k]]

\* Object.values(templateData).flat()
RECURSIVE Flat(_, _)
Flat(data, k) ==
    IF k = 0 THEN << >>
    ELSE Flat(data, k - 1) \o ArrayToSeq(data[CategoryOrder[k]])

\* fields.join(' ') for the fields from..to, put together by halves
RECURSIVE Join(_, _, _)
Join(fields, from, to) ==
    IF from > to THEN << >>
    ELSE IF from = to THEN fields[from]
    ELSE LET middle == (from + to) \div 2
         IN  Join(fields, from, middle) \o <<" ">> \o Join(fields, middle + 1, to)

\* text.includes(keyword)
Includes(text, keyword) ==
    \E k \in 1..(Len(text) - Len(keyword) + 1) :
        \A j \in 1..Len(keyword) : text[k + j - 1] = keyword[j]

\* lines 103-112
agentKeywords ==
    <<
     [agent |-> "backend-developer",
      keywords |-> <<
           <<"a","p","i">>,
           <<"b","a","c","k","e","n","d">>,
           <<"s","e","r","v","e","r">>,
           <<"d","a","t","a","b","a","s","e">>,
           <<"r","e","s","t">>>>],
     [agent |-> "frontend-developer",
      keywords |-> <<
           <<"u","i">>,
           <<"f","r","o","n","t","e","n","d">>,
           <<"r","e","a","c","t">>,
           <<"c","o","m","p","o","n","e","n","t">>,
           <<"i","n","t","e","r","f","a","c","e">>>>],
     [agent |-> "security-engineer",
      keywords |-> <<
           <<"s","e","c","u","r","i","t","y">>,
           <<"a","u","t","h","e","n","t","i","c","a","t","i","o","n">>,
           <<"a","u","t","h","o","r","i","z","a","t","i","o","n">>,
           <<"e","n","c","r","y","p","t","i","o","n">>>>],
     [agent |-> "database-optimizer",
      keywords |-> <<
           <<"d","a","t","a","b","a","s","e">>,
           <<"q","u","e","r","y">>,
           <<"o","p","t","i","m","i","z","a","t","i","o","n">>,
           <<"s","q","l">>>>],
     [agent |-> "code-reviewer",
      keywords |-> <<
           <<"q","u","a","l","i","t","y">>,
           <<"r","e","v","i","e","w">>,
           <<"b","e","s","t"," ","p","r","a","c","t","i","c","e">>,
           <<"s","t","a","n","d","a","r","d","s">>>>],
     [agent |-> "documentation-engineer",
      keywords |-> <<
           <<"d","o","c","u","m","e","n","t","a","t","i","o","n">>,
           <<"r","e","a","d","m","e">>,
           <<"g","u","i","d","e">>,
           <<"m","a","n","u","a","l">>>>],
     [agent |-> "test-automator",
      keywords |-> <<
           <<"t","e","s","t">>,
           <<"t","e","s","t","i","n","g">>,
           <<"q","a">>,
           <<"v","a","l","i","d","a","t","i","o","n">>>>],
     [agent |-> "performance-engineer",
      keywords |-> <<
           <<"p","e","r","f","o","r","m","a","n","c","e">>,
           <<"o","p","t","i","m","i","z","a","t","i","o","n">>,
           <<"s","p","e","e","d">>,
           <<"e","f","f","i","c","i","e","n","c","y">>>>]
    >>

\* suggestConsultants without its slice(0, 3)
suggestConsultantsUncut(data) ==
    LET fields == Flat(data, Len(CategoryOrder))
        allText == toLowerCase(Join(fields, 1, Len(fields)))
        matching == SelectSeq(agentKeywords,
                        LAMBDA entry : \E n \in 1..Len(entry.keywords) :
                                           Includes(allText, entry.keywords[n]))
    IN  [n \in 1..Len(matching) |-> matching[n].agent]

\* lines 96-119: the agents one of whose keywords occurs in the text of the
\* template, in the order of the table, cut to the first three
suggestConsultants(data) ==
    LET fields == Flat(data, Len(CategoryOrder))
        allText == toLowerCase(Join(fields, 1, Len(fields)))
        matching == SelectSeq(agentKeywords,
                        LAMBDA entry : \E n \in 1..Len(entry.keywords) :
                                           Includes(allText, entry.keywords[n]))
        consultants == [n \in 1..Len(matching) |-> matching[n].agent]
    IN  SubSeq(consultants, 1, IF Len(consultants) < 3 THEN Len(consultants) ELSE 3)

\* analyzeInputData, had its cutoffs been inclusive
analyzeInputDataInclusive(data, docs) ==
    LET totalFields == SumFilled(data, Len(CategoryOrder))
    IN  [coreFunctionCount |-> FilledCount(data["coreFunctions"]),
         domainExpertiseCount |-> FilledCount(data["domainExpertise"]),
         hasDocuments |-> Len(docs) > 0,
         documentCount |-> Len(docs),
         totalDocumentPages |-> SumPages(docs, Len(docs)),
         complexity |-> IF totalFields >= 50 \/ Len(docs) >= 5 THEN "complex"
                        ELSE IF totalFields >= 20 \/ Len(docs) >= 2 THEN "moderate"
                        ELSE "simple",
         suggestedConsultants |-> suggestConsultants(data)]

\* lines 64-91
analyzeInputData(data, docs) ==
    LET totalFields == SumFilled(data, Len(CategoryOrder))
    IN  [coreFunctionCount |-> FilledCount(data["coreFunctions"]),
         domainExpertiseCount |-> FilledCount(data["domainExpertise"]),
         hasDocuments |-> Len(docs) > 0,
         documentCount |-> Len(docs),
         totalDocumentPages |-> SumPages(docs, Len(docs)),
         complexity |-> IF totalFields > 50 \/ Len(docs) > 5 THEN "complex"
                        ELSE IF totalFields > 20 \/ Len(docs) > 2 THEN "moderate"
                        ELSE "simple",
         suggestedConsultants |-> suggestConsultants(data)]

\* TemplateProcessor.estimateComplexity, part_007 lines 185-219: a field counts
\* when item && item.trim() !== '' ; a missing documents argument is []
estimateComplexity(data, docs) ==
    LET counted(category) ==
            Len(SelectSeq(ArrayToSeq(data[category]),
                          LAMBDA item : item # << >> /\ Trim(item) # << >>))
        total[k \in 0..Len(CategoryOrder)] ==
            IF k = 0 THEN 0 ELSE total[k - 1] + counted(CategoryOrder[k])
        totalFields == total[Len(CategoryOrder)]
        documentCount == Len(docs)
    IN  IF totalFields > 50 \/ documentCount > 5 THEN "high"
        ELSE IF totalFields > 15 \/ documentCount > 2 THEN "medium"
        ELSE "low"

----------------------------------------------------------------------------
(* analyzeInputData and estimateComplexity applied to template data and
   document lists of all sizes *)

\* template data whose first `filled` slots, in the order of the form, hold
\* text, the next `blank` slots hold white space only and the rest are empty
TemplateWith(filled, blank) ==
    [c \in Categories |->
        [i \in 0..(SLOTS - 1) |->
            LET position == SLOTS * ((CHOOSE k \in 1..Len(CategoryOrder) : CategoryOrder[k] = c) - 1)
                                + i + 1
            IN  IF position <= filled THEN <<"U", "I", " ">>
                ELSE IF position <= filled + blank THEN <<" ", "\t">>
                ELSE << >>]]

RECURSIVE DocumentList(_)
DocumentList(n) ==
    IF n = 0 THEN << >>
    ELSE Append(DocumentList(n - 1),
                [name |-> "a.pdf", path |-> "/docs/a.pdf", text |-> "Sample PDF text", pages |-> 5])

\* texts of template fields: '', 'Build REST API', 'Security TEST', 'best',
\* 'practice', 'SQL speed', 'Manual', 'plain words'
Phrases ==
    {
     << >>,
     <<"B","u","i","l","d"," ","R","E","S","T"," ","A","P","I">>,
     <<"S","e","c","u","r","i","t","y"," ","T","E","S","T">>,
     <<"b","e","s","t">>,
     <<"p","r","a","c","t","i","c","e">>,
     <<"S","Q","L"," ","s","p","e","e","d">>,
     <<"M","a","n","u","a","l">>,
     <<"p","l","a","i","n"," ","w","o","r","d","s">>
    }

\* template data with three fields filled in: the first two of the first
\* category and the last of the last
PhraseTemplate(first, second, last) ==
    [EmptyTemplateData EXCEPT !["coreFunctions"][0] = first,
                              !["coreFunctions"][1] = second,
                              !["integrationTargets"][SLOTS - 1] = last]

InitAnalyze ==
    /\ IpcIdle
    /\ loading = FALSE
    /\ error = Null
    /\ generatedAgent = Null
    /\ uploads = << >>
    /\ \/ /\ templateData \in {TemplateWith(filled, blank) :
                                  filled \in 0..MaxFields, blank \in {0, BlankFields}}
          /\ documents \in {DocumentList(n) : n \in 0..MaxAnalyzedDocuments}
       \/ /\ templateData \in {PhraseTemplate(first, second, last) :
                                  first \in Phrases, second \in Phrases, last \in Phrases}
          /\ documents = << >>
    /\ analysis = Null
    /\ estimate = Null
    /\ generation = Null
    /\ saving = Null
    /\ theme = "dark"
    /\ initialLoadRef = TRUE
    /\ settingsCalls = Null
    /\ items = << >>
    /\ ranked = Null
    /\ template = Null
    /\ filledTemplate = Null

AnalyzeInputData ==
    /\ analysis = Null
    /\ analysis' = Some(analyzeInputData(templateData, documents))
    /\ UNCHANGED <<themeVars, toolVars, ipcVars, hookVars, estimate, generation, saving>>

EstimateComplexity ==
    /\ estimate = Null
    /\ estimate' = Some(estimateComplexity(templateData, documents))
    /\ UNCHANGED <<themeVars, toolVars, ipcVars, hookVars, analysis, generation, saving>>

SpecAnalyze == InitAnalyze /\ [][AnalyzeInputData \/ EstimateComplexity]_vars

----------------------------------------------------------------------------
(* HeadArchitectAgent.generateSubagent: agentGenerator.js lines 19-59 and
   124-161.  The call is made for the template data and documents of the
   state; templateData may also be null.  What window.electronAPI rejects
   with, and what the call throws, is an Error with a message. *)

\* generateSubagent without its catch block: the call rejects
rethrowError(message) ==
    [kind |-> "rejected", message |-> message]

\* lines 52-58, with the promise of the async function: the catch block
\* resolves the call
catchError(message) ==
    [kind |-> "resolved", value |-> [success |-> FALSE, error |-> message]]

\* consultAgent, had it answered a failed consultation with a placeholder
\* where it returns null
consultAgentPlaceholder(outcome) ==
    IF outcome.kind = "resolved" /\ outcome.value # Null /\ outcome.value.success
    THEN outcome.value.response
    ELSE [agentType |-> "unavailable", available |-> FALSE]

\* lines 153-161: result.success ? result.response : null, and null when the
\* call rejects or resolves with nothing
consultAgent(outcome) ==
    IF outcome.kind = "resolved" /\ outcome.value # Null
    THEN (IF outcome.value.success THEN outcome.value.response ELSE Null)
    ELSE Null

\* lines 19-22: the call starts and waits for loadTemplate
GenerateSubagent ==
    /\ generation = Null
    /\ \E agentName \in {"AuthAPI"}, agentType \in {"backend-developer"} :
           generation' = [phase |-> "loadTemplate", agentName |-> agentName,
                          agentType |-> agentType, calls |-> << >>, settled |-> << >>,
                          consultations |-> << >>, loaded |-> Null,
                          result |-> Null]
    /\ UNCHANGED <<themeVars, toolVars, ipcVars, hookVars, analysis, estimate, saving>>

\* lines 22-29 and 124-131: loadTemplate settles; the data is analyzed and
\* code-reviewer is consulted
LoadTemplateSettles ==
    /\ generation # Null
    /\ generation.phase = "loadTemplate"
    /\ \E outcome \in {[kind |-> "resolved", value |-> [success |-> TRUE, template |-> "# Template"]],
                       [kind |-> "resolved", value |-> [success |-> FALSE, error |-> "Template not found"]],
                       [kind |-> "resolved", value |-> Null],
                       [kind |-> "rejected", message |-> "Template load failed"]} :
           IF outcome.kind = "rejected" THEN
               /\ generation' = [generation EXCEPT !.phase = "done", !.loaded = outcome,
                                                   !.result = catchError(outcome.message)]
               /\ UNCHANGED analysis
           ELSE IF outcome.value = Null THEN
               /\ generation' = [generation EXCEPT !.phase = "done", !.loaded = outcome,
                                    !.result = catchError("Cannot read properties of undefined")]
               /\ UNCHANGED analysis
           ELSE IF templateData = Null THEN
               /\ generation' = [generation EXCEPT !.phase = "done", !.loaded = outcome,
                                    !.result = catchError("Cannot read properties of null")]
               /\ UNCHANGED analysis
           ELSE
               /\ analysis' = Some(analyzeInputData(templateData, documents))
               /\ generation' = [generation EXCEPT !.phase = "consult", !.loaded = outcome,
                                                   !.calls = <<"code-reviewer">>]
    /\ UNCHANGED <<themeVars, toolVars, ipcVars, hookVars, estimate, saving>>

\* lines 132-147 and 31-51: window.electronAPI.consultAgent settles for the
\* agent consulted last; the next suggested consultant is consulted, or the
\* specification is created and the call resolves.  The specification is
\* held by the values its text is made from.
ConsultAgentSettles ==
    /\ generation # Null
    /\ generation.phase = "consult"
    /\ \E outcome \in
           {[kind |-> "resolved",
             value |-> [success |-> TRUE,
                        response |-> [agentType |-> generation.calls[Len(generation.calls)],
                                      available |-> TRUE]]],
            [kind |-> "resolved", value |-> [success |-> TRUE, response |-> Null]],
            [kind |-> "resolved", value |-> [success |-> FALSE, error |-> "Agent not found"]],
            [kind |-> "resolved", value |-> Null],
            [kind |-> "rejected", message |-> "Consultation failed"]} :
           LET consultation == consultAgent(outcome)
               consultations == IF consultation # Null
                                THEN Append(generation.consultations, consultation)
                                ELSE generation.consultations
               suggested == analysis.value.suggestedConsultants
               asked == Len(generation.calls) - 1
               specification ==
                   [agentName |-> generation.agentName, agentType |-> generation.agentType,
                    complexity |-> analysis.value.complexity,
                    coreFunctions |-> SelectSeq(ArrayToSeq(templateData["coreFunctions"]),
                                                LAMBDA f : Trim(f) # << >>),
                    documents |-> [n \in 1..Len(documents) |-> documents[n].name],
                    consultations |-> Len(consultations)]
           IN  IF asked < Len(suggested) THEN
                   generation' = [generation EXCEPT
                                     !.settled = Append(@, outcome),
                                     !.consultations = consultations,
                                     !.calls = Append(@, suggested[asked + 1])]
               ELSE
                   generation' = [generation EXCEPT
                       !.phase = "done",
                       !.settled = Append(@, outcome),
                       !.consultations = consultations,
                       !.result =
                           [kind |-> "resolved",
                            value |-> [success |-> TRUE,
                                       specification |-> specification,
                                       metadata |->
                                           [name |-> generation.agentName,
                                            type |-> generation.agentType,
                                            consultedAgents |->
                                                [n \in 1..Len(consultations) |->
                                                    consultations[n].agentType]]]]]
    /\ UNCHANGED <<themeVars, toolVars, ipcVars, hookVars, analysis, estimate, saving>>

InitGenerate ==
    /\ IpcIdle
    /\ loading = FALSE
    /\ error = Null
    /\ generatedAgent = Null
    /\ uploads = << >>
    /\ templateData \in {Null} \cup {PhraseTemplate(first, second, << >>) :
                                       first \in Phrases, second \in Phrases}
    /\ documents \in {DocumentList(n) : n \in 0..1}
    /\ analysis = Null
    /\ estimate = Null
    /\ generation = Null
    /\ saving = Null
    /\ theme = "dark"
    /\ initialLoadRef = TRUE
    /\ settingsCalls = Null
    /\ items = << >>
    /\ ranked = Null
    /\ template = Null
    /\ filledTemplate = Null

SpecGenerate ==
    InitGenerate /\ [][GenerateSubagent \/ LoadTemplateSettles \/ ConsultAgentSettles]_vars

----------------------------------------------------------------------------
(* saveAgent of useAgentGenerator: useAgentGenerator.js lines 92-115.  saving
   holds the call in flight: the request given to window.electronAPI.saveAgent,
   then what that call settled with and what saveAgent returned. *)

\* lines 92-101: setLoading(true), setError(null) and the request
SaveAgent ==
    /\ IF saving = Null THEN TRUE ELSE saving.phase = "returned"
    /\ \E agentContent \in {"# AuthAPI"},
          metadata \in {[name |-> "AuthAPI", type |-> "backend-developer"]} :
           saving' = [phase |-> "called",
                      request |-> [name |-> metadata.name, content |-> agentContent,
                                   metadata |-> metadata],
                      settled |-> Null, returned |-> Null]
    /\ loading' = TRUE
    /\ error' = Null
    /\ UNCHANGED <<generatedAgent, templateData, documents, uploads>>
    /\ UNCHANGED <<themeVars, toolVars, ipcVars, analysis, estimate, generation>>

\* saveAgent, had it dropped the generated agent when the save fails
SaveAgentSettlesDropsAgent ==
    /\ saving # Null
    /\ saving.phase = "called"
    /\ \E outcome \in {[kind |-> "resolved", value |-> [success |-> TRUE, path |-> "/agents/AuthAPI.md"]],
                       [kind |-> "resolved", value |-> [success |-> FALSE, error |-> "Invalid agent name"]],
                       [kind |-> "rejected", message |-> "IPC error"]} :
           IF outcome.kind = "resolved" /\ outcome.value.success THEN
               /\ saving' = [saving EXCEPT !.phase = "returned", !.settled = outcome,
                                           !.returned = outcome.value]
               /\ UNCHANGED <<error, generatedAgent>>
           ELSE
               /\ saving' = [saving EXCEPT !.phase = "returned", !.settled = outcome]
               /\ error' = Some(IF outcome.kind = "resolved" THEN outcome.value.error
                                ELSE outcome.message)
               /\ generatedAgent' = Null
    /\ loading' = FALSE
    /\ UNCHANGED <<templateData, documents, uploads>>
    /\ UNCHANGED <<themeVars, toolVars, ipcVars, analysis, estimate, generation>>

\* lines 102-114: window.electronAPI.saveAgent settles; the result is returned
\* when it has success true, otherwise error is set and null is returned;
\* finally setLoading(false)
SaveAgentSettles ==
    /\ saving # Null
    /\ saving.phase = "called"
    /\ \E outcome \in {[kind |-> "resolved", value |-> [success |-> TRUE, path |-> "/agents/AuthAPI.md"]],
                       [kind |-> "resolved", value |-> [success |-> FALSE, error |-> "Invalid agent name"]],
                       [kind |-> "rejected", message |-> "IPC error"]} :
           IF outcome.kind = "resolved" /\ outcome.value.success THEN
               /\ saving' = [saving EXCEPT !.phase = "returned", !.settled = outcome,
                                           !.returned = outcome.value]
               /\ UNCHANGED error
           ELSE
               /\ saving' = [saving EXCEPT !.phase = "returned", !.settled = outcome]
               /\ error' = Some(IF outcome.kind = "resolved" THEN outcome.value.error
                                ELSE outcome.message)
    /\ loading' = FALSE
    /\ UNCHANGED <<generatedAgent, templateData, documents, uploads>>
    /\ UNCHANGED <<themeVars, toolVars, ipcVars, analysis, estimate, generation>>

\* a form with up to MaxListed documents of different names, with or without
\* a field filled in, a generated agent and an error shown
InitSave ==
    /\ IpcIdle
    /\ loading = FALSE
    /\ error \in {Null, Some("File not found")}
    /\ uploads = << >>
    /\ templateData \in {EmptyTemplateData, PhraseTemplate(<<"U", "I">>, << >>, << >>)}
    /\ \E n \in 0..MaxListed :
           documents = [i \in 1..n |->
                           [name |-> <<"a.pdf", "b.pdf", "c.pdf", "d.pdf", "e.pdf">>[i],
                            path |-> <<"/a.pdf", "/b.pdf", "/c.pdf", "/d.pdf", "/e.pdf">>[i],
                            text |-> "Sample PDF text", pages |-> 5]]
    /\ generatedAgent \in {Null, Some([name |-> "AuthAPI", type |-> "backend-developer",
                                        templateData |-> templateData,
                                        documents |-> documents])}
    /\ analysis = Null
    /\ estimate = Null
    /\ generation = Null
    /\ saving = Null
    /\ theme = "dark"
    /\ initialLoadRef = TRUE
    /\ settingsCalls = Null
    /\ items = << >>
    /\ ranked = Null
    /\ template = Null
    /\ filledTemplate = Null

SpecSave ==
    InitSave /\ [][SaveAgent \/ SaveAgentSettles \/ RemoveDocument \/ resetForm]_vars

----------------------------------------------------------------------------
(* useTheme: useTheme.js lines 3-38.  The hook is mounted, and its effect has
   called loadSettings when window.electronAPI is there.  toggleTheme is the
   click handler of ThemeToggle; React renders after every click, so a call
   reads the theme of the state.  settingsCalls.toggles lists the calls made:
   the theme before, the theme set, and the saveSettings call with the theme
   passed to it. *)

\* lines 8-22: the effect at mount
InitTheme ==
    /\ IpcIdle
    /\ loading = FALSE
    /\ error = Null
    /\ generatedAgent = Null
    /\ templateData = EmptyTemplateData
    /\ documents = << >>
    /\ uploads = << >>
    /\ analysis = Null
    /\ estimate = Null
    /\ generation = Null
    /\ saving = Null
    /\ theme = "dark"
    /\ initialLoadRef = TRUE
    /\ \E electronAPI \in BOOLEAN :
           settingsCalls = [electronAPI |-> electronAPI,
                            load |-> IF electronAPI THEN "pending" ELSE "none",
                            loaded |-> Null, togglesBefore |-> 0, toggles |-> << >>]
    /\ items = << >>
    /\ ranked = Null
    /\ template = Null
    /\ filledTemplate = Null

\* loadTheme as lines 47-53 have it, without the test of initialLoadRef
LoadSettingsSettlesUnguarded ==
    /\ settingsCalls.load = "pending"
    /\ \E outcome \in {[kind |-> "resolved", value |-> [success |-> TRUE, settings |-> [theme |-> "light"]]],
                       [kind |-> "resolved", value |-> [success |-> TRUE, settings |-> [theme |-> "dark"]]],
                       [kind |-> "resolved", value |-> [success |-> TRUE, settings |-> [autoSave |-> TRUE]]],
                       [kind |-> "resolved", value |-> [success |-> FALSE, error |-> "Rate limit exceeded"]],
                       [kind |-> "rejected", message |-> "IPC error"]} :
           /\ settingsCalls' = [settingsCalls EXCEPT !.load = "settled", !.loaded = outcome,
                                                     !.togglesBefore = Len(settingsCalls.toggles)]
           /\ IF outcome.kind = "rejected" THEN UNCHANGED <<theme, initialLoadRef>>
              ELSE /\ theme' = IF /\ outcome.value.success
                                  /\ "theme" \in DOMAIN outcome.value.settings
                               THEN outcome.value.settings.theme
                               ELSE theme
                   /\ initialLoadRef' = FALSE
    /\ UNCHANGED <<ipcVars, hookVars, serviceVars, toolVars>>

\* lines 12-17: loadSettings settles.  When it rejects, loadTheme ends there.
LoadSettingsSettles ==
    /\ settingsCalls.load = "pending"
    /\ \E outcome \in {[kind |-> "resolved", value |-> [success |-> TRUE, settings |-> [theme |-> "light"]]],
                       [kind |-> "resolved", value |-> [success |-> TRUE, settings |-> [theme |-> "dark"]]],
                       [kind |-> "resolved", value |-> [success |-> TRUE, settings |-> [autoSave |-> TRUE]]],
                       [kind |-> "resolved", value |-> [success |-> FALSE, error |-> "Rate limit exceeded"]],
                       [kind |-> "rejected", message |-> "IPC error"]} :
           /\ settingsCalls' = [settingsCalls EXCEPT !.load = "settled", !.loaded = outcome,
                                                     !.togglesBefore = Len(settingsCalls.toggles)]
           /\ IF outcome.kind = "rejected" THEN UNCHANGED <<theme, initialLoadRef>>
              ELSE /\ theme' = IF /\ outcome.value.success
                                  /\ "theme" \in DOMAIN outcome.value.settings
                                  /\ initialLoadRef
                               THEN outcome.value.settings.theme
                               ELSE theme
                   /\ initialLoadRef' = FALSE
    /\ UNCHANGED <<ipcVars, hookVars, serviceVars, toolVars>>

\* toggleTheme, had it saved the theme it read
ToggleThemeSavesOld ==
    /\ Len(settingsCalls.toggles) < MaxToggles
    /\ initialLoadRef' = FALSE
    /\ LET newTheme == IF theme = "dark" THEN "light" ELSE "dark"
       IN  /\ theme' = newTheme
           /\ settingsCalls' =
                  [settingsCalls EXCEPT !.toggles =
                      Append(@, [before |-> theme, after |-> newTheme,
                                 save |-> IF settingsCalls.electronAPI
                                          THEN [theme |-> theme, state |-> "pending"]
                                          ELSE Null])]
    /\ UNCHANGED <<ipcVars, hookVars, serviceVars, toolVars>>

\* lines 24-34, up to the await
ToggleTheme ==
    /\ Len(settingsCalls.toggles) < MaxToggles
    /\ initialLoadRef' = FALSE
    /\ LET newTheme == IF theme = "dark" THEN "light" ELSE "dark"
       IN  /\ theme' = newTheme
           /\ settingsCalls' =
                  [settingsCalls EXCEPT !.toggles =
                      Append(@, [before |-> theme, after |-> newTheme,
                                 save |-> IF settingsCalls.electronAPI
                                          THEN [theme |-> newTheme, state |-> "pending"]
                                          ELSE Null])]
    /\ UNCHANGED <<ipcVars, hookVars, serviceVars, toolVars>>

\* lines 33-34: saveSettings settles, with success true, with success false or
\* by rejecting; nothing follows the await
SaveSettingsSettles ==
    /\ \E n \in 1..Len(settingsCalls.toggles), state \in {"saved", "failed", "rejected"} :
           /\ settingsCalls.toggles[n].save # Null
           /\ settingsCalls.toggles[n].save.state = "pending"
           /\ settingsCalls' = [settingsCalls EXCEPT !.toggles[n].save.state = state]
    /\ UNCHANGED <<theme, initialLoadRef>>
    /\ UNCHANGED <<ipcVars, hookVars, serviceVars, toolVars>>

SpecTheme ==
    InitTheme /\ [][ToggleTheme \/ LoadSettingsSettles \/ SaveSettingsSettles]_vars

----------------------------------------------------------------------------
(* useAgentGenerator with calls that overlap: file selections made while
   processPDF calls of earlier ones are in flight, a saveAgent call beside
   them, removeDocument and resetForm.  The form starts with one field filled
   in and nothing else fills a field, so templateData is empty exactly when
   resetForm has run.  The files selected before the reset are a.pdf and c.pdf,
   those selected after it are b.pdf, and saveAgent is called before the reset
   only: a call in flight shows when it was started. *)

InitOverlap ==
    /\ IpcIdle
    /\ loading = FALSE
    /\ error = Null
    /\ generatedAgent = Null
    /\ templateData = PhraseTemplate(<<"U", "I">>, << >>, << >>)
    /\ documents = << >>
    /\ uploads = << >>
    /\ analysis = Null
    /\ estimate = Null
    /\ generation = Null
    /\ saving = Null
    /\ theme = "dark"
    /\ initialLoadRef = TRUE
    /\ settingsCalls = Null
    /\ items = << >>
    /\ ranked = Null
    /\ template = Null
    /\ filledTemplate = Null

\* part_008 lines 20-36: one PDF is selected
OverlapFileSelect ==
    /\ Len(uploads) < MaxOverlap
    /\ Len(documents) + Len(uploads) <= MaxOverlap
    /\ \E name \in IF templateData = EmptyTemplateData THEN {"b.pdf"} ELSE {"a.pdf", "c.pdf"} :
           handleFileSelect(<<File(name, "application/pdf")>>)

SpecOverlap ==
    InitOverlap /\ [][\/ OverlapFileSelect
                      \/ ProcessPdfSettles
                      \/ RemoveDocument
                      \/ resetForm
                      \/ templateData # EmptyTemplateData /\ saving = Null /\ SaveAgent
                      \/ SaveAgentSettles]_vars

----------------------------------------------------------------------------
(* PDFAnalyzer.deduplicateAndRank: pdfParser.js lines 103-115.  An item that
   is a string is held as [string |-> it], an object item as the record of its
   properties. *)

\* deduplicateAndRank without its sort
deduplicateAndRankUnsorted(list) ==
    LET key(item) == IF "string" \in DOMAIN item THEN item.string
                     ELSE IF "term" \in DOMAIN item /\ item.term # "" THEN item.term
                     ELSE item.text
        keys == [n \in 1..Len(list) |-> key(list[n])]
        first == SelectSeq([n \in 1..Len(list) |-> n],
                           LAMBDA n : \A m \in 1..(n - 1) : keys[m] # keys[n])
        entries == [j \in 1..Len(first) |->
                       [term |-> keys[first[j]],
                        count |-> Cardinality({n \in 1..Len(list) : keys[n] = keys[first[j]]})]]
    IN  SubSeq(entries, 1, IF Len(entries) < 10 THEN Len(entries) ELSE 10)

\* lines 103-115.  The Map lists its keys in the order they were first set,
\* Array.prototype.sort is stable, and slice(0, 10) keeps the first ten.
deduplicateAndRank(list) ==
    LET key(item) == IF "string" \in DOMAIN item THEN item.string
                     ELSE IF "term" \in DOMAIN item /\ item.term # "" THEN item.term
                     ELSE item.text
        keys == [n \in 1..Len(list) |-> key(list[n])]
        first == SelectSeq([n \in 1..Len(list) |-> n],
                           LAMBDA n : \A m \in 1..(n - 1) : keys[m] # keys[n])
        entries == [j \in 1..Len(first) |->
                       [term |-> keys[first[j]],
                        count |-> Cardinality({n \in 1..Len(list) : keys[n] = keys[first[j]]})]]
        position(j) == 1 + Cardinality({i \in 1..Len(entries) :
                                           \/ entries[i].count > entries[j].count
                                           \/ entries[i].count = entries[j].count /\ i < j})
        sorted == [p \in 1..Len(entries) |->
                      entries[CHOOSE j \in 1..Len(entries) : position(j) = p]]
    IN  SubSeq(sorted, 1, IF Len(sorted) < 10 THEN Len(sorted) ELSE 10)

\* the lists ranked: every list of up to MaxItems of four items (strings and
\* objects with a term or a text, two of them with the same key), and lists of
\* up to MaxKeys different strings followed by up to MaxRepeats of them again,
\* the last first
InitRank ==
    /\ IpcIdle
    /\ loading = FALSE
    /\ error = Null
    /\ generatedAgent = Null
    /\ templateData = EmptyTemplateData
    /\ documents = << >>
    /\ uploads = << >>
    /\ analysis = Null
    /\ estimate = Null
    /\ generation = Null
    /\ saving = Null
    /\ theme = "dark"
    /\ initialLoadRef = TRUE
    /\ settingsCalls = Null
    /\ ranked = Null
    /\ template = Null
    /\ filledTemplate = Null
    /\ LET Few == {[string |-> "API"], [term |-> "API", count |-> 1],
                   [text |-> "must validate", priority |-> "high"],
                   [term |-> "", text |-> "database"]}
           Terms == <<"term0", "term1", "term2", "term3", "term4", "term5", "term6",
                      "term7", "term8", "term9", "term10", "term11", "term12", "term13">>
           Many(distinct, repeats) ==
               [n \in 1..(distinct + repeats) |->
                   [string |-> IF n <= distinct THEN Terms[n]
                               ELSE Terms[distinct + 1 - (n - distinct)]]]
       IN  items \in UNION {[1..n -> Few] : n \in 0..MaxItems}
                     \cup {Many(distinct, repeats) :
                              distinct \in (MaxKeys - 3)..MaxKeys, repeats \in 0..MaxRepeats}

DeduplicateAndRank ==
    /\ ranked = Null
    /\ ranked' = Some(deduplicateAndRank(items))
    /\ UNCHANGED <<ipcVars, hookVars, serviceVars, themeVars, items, template, filledTemplate>>

SpecRank == InitRank /\ [][DeduplicateAndRank]_vars

----------------------------------------------------------------------------
(* TemplateProcessor.fillTemplate: part_007 lines 14-60.  A text is a sequence
   of characters in which a placeholder such as [DOMAIN], and the replacement
   patterns $& and $$, count as one character each. *)

\* lines 14-26; every array given here is an array
joinFields(fields) ==
    LET filtered == SelectSeq(ArrayToSeq(fields),
                              LAMBDA field : field # << >> /\ Trim(field) # << >>)
        joined[n \in 0..Len(filtered)] ==
            IF n = 0 THEN << >>
            ELSE IF n = 1 THEN filtered[1]
            ELSE joined[n - 1] \o <<";", " ">> \o filtered[n]
    IN  IF Len(filtered) = 0
        THEN <<"N", "o", "t", " ", "s", "p", "e", "c", "i", "f", "i", "e", "d">>
        ELSE joined[Len(filtered)]

\* lines 34-60.  The replacements are made one after the other, in the order
\* of the keys of the object, each on the result of the one before;
\* replaceAll(placeholder, value) with a string value puts the matched text for
\* $& and a dollar sign for $$.
fillTemplate(text, data, metadata) ==
    LET prefix == IF metadata.prefix # Null THEN metadata.prefix.value
                  ELSE [n \in 1..Len(metadata.type) |->
                           IF metadata.type[n] = "-" THEN "_" ELSE metadata.type[n]]
        placeholders == <<"[SUBAGENT_TYPE]", "[CORE_FUNCTION]", "[DOMAIN]", "[INPUT_TYPES]",
                          "[VALIDATION]", "[OUTPUT_FORMAT]", "[PERFORMANCE]", "[STYLE_GUIDE]",
                          "[INTEGRATION_TARGETS]", "[PREFIX]", "[TEST_COVERAGE]">>
        value(k) == IF k = 1 THEN metadata.type
                    ELSE IF k = 10 THEN prefix
                    ELSE IF k = 11
                    THEN (IF "testCoverage" \in DOMAIN data THEN joinFields(data["testCoverage"])
                          ELSE joinFields(<< >>))
                    ELSE joinFields(data[CategoryOrder[k - 1]])
        substitution(k) ==
            [n \in 1..Len(value(k)) |-> IF value(k)[n] = "$&" THEN placeholders[k]
                                        ELSE IF value(k)[n] = "$$" THEN "$"
                                        ELSE value(k)[n]]
        RECURSIVE concat(_, _, _)
        concat(parts, from, to) ==
            IF from > to THEN << >>
            ELSE IF from = to THEN parts[from]
            ELSE concat(parts, from, (from + to) \div 2) \o concat(parts, (from + to) \div 2 + 1, to)
        replaceAll(string, k) ==
            concat([n \in 1..Len(string) |-> IF string[n] = placeholders[k] THEN substitution(k)
                                             ELSE <<string[n]>>],
                   1, Len(string))
        RECURSIVE replaced(_, _)
        replaced(string, k) ==
            IF k > Len(placeholders) THEN string ELSE replaced(replaceAll(string, k), k + 1)
    IN  replaced(text, 1)

\* the templates, field texts and metadata fillTemplate is called with: a
\* template with every placeholder, one with a placeholder twice and one
\* without any; the first field of the first two categories empty, blank, a
\* word, or a text that holds a placeholder or a replacement pattern
InitFill ==
    /\ IpcIdle
    /\ loading = FALSE
    /\ error = Null
    /\ generatedAgent = Null
    /\ documents = << >>
    /\ uploads = << >>
    /\ analysis = Null
    /\ estimate = Null
    /\ generation = Null
    /\ saving = Null
    /\ theme = "dark"
    /\ initialLoadRef = TRUE
    /\ settingsCalls = Null
    /\ items = << >>
    /\ ranked = Null
    /\ filledTemplate = Null
    /\ LET FieldTexts == {<< >>, <<" ">>, <<"A", "P", "I">>, <<"[", "x", "]">>,
                          <<"[DOMAIN]">>, <<"[CORE_FUNCTION]">>, <<"$&">>, <<"$$", "5">>}
       IN  templateData \in
               {[EmptyTemplateData EXCEPT !["coreFunctions"][0] = first,
                                          !["coreFunctions"][1] = second,
                                          !["domainExpertise"][0] = third] :
                    first \in FieldTexts, second \in {<< >>, <<"U", "I">>}, third \in FieldTexts}
    /\ template \in
           [template : {<<"#", " ", "[SUBAGENT_TYPE]", "\n", "[CORE_FUNCTION]", "\n", "[DOMAIN]", "\n",
                          "[INPUT_TYPES]", "[VALIDATION]", "[OUTPUT_FORMAT]", "[PERFORMANCE]",
                          "[STYLE_GUIDE]", "[INTEGRATION_TARGETS]", "\n", "[PREFIX]", "_",
                          "[TEST_COVERAGE]">>,
                        <<"[DOMAIN]", ":", "[CORE_FUNCTION]", ",", "[DOMAIN]">>,
                        <<"n", "o", "n", "e">>},
            metadata : [type : {<<"a", "-", "b">>, <<"[PREFIX]">>},
                        prefix : {Null, Some(<<"a">>)}]]

FillTemplate ==
    /\ filledTemplate = Null
    /\ filledTemplate' = Some(fillTemplate(template.template, templateData, template.metadata))
    /\ UNCHANGED <<ipcVars, hookVars, serviceVars, themeVars, items, ranked, template>>

SpecFill == InitFill /\ [][FillTemplate]_vars

----------------------------------------------------------------------------
(* Properties of the rate limiter and of the handlers *)

\* the per-minute quota of each channel, as documented
ClaimedQuota(channel) ==
    CASE channel = "save-agent" -> 10
      [] channel = "load-agents" -> 20
      [] channel = "get-existing-agents" -> 20
      [] channel = "process-pdf" -> 5
      [] channel = "load-settings" -> 30
      [] channel = "save-settings" -> 20
      [] channel = "load-template" -> 10
      [] channel = "consult-agent" -> 30
      [] channel = "get-app-version" -> 60
      [] OTHER -> 10

\* C1: at every instant and for every channel, the number of requests that
\* isRateLimited admitted on the channel during the preceding 60,000 ms is at
\* most the channel's quota (10 for a channel the table does not list).
C1_QuotaNeverExceeded ==
    \A c \in AllChannels : Len(admitted[c]) <= ClaimedQuota(c)

\* get-app-version has used its whole quota of 60, over two different
\* instants, and the request after that was blocked
C1_Witness ==
    /\ lastCall.channel = "get-app-version"
    /\ lastCall.blocked
    /\ Len(admitted["get-app-version"]) = 60
    /\ admitted["get-app-version"][1] # admitted["get-app-version"][60]

\* C2: isRateLimited(channel) at time now blocks exactly when the admitted
\* requests of the channel with now - t < 60000 number at least the quota;
\* the timestamps it holds that are younger than 60,000 ms are exactly those
\* admissions (an admitted request is recorded, a blocked one is not), so a
\* blocked channel admits again once its oldest admission is 60,000 ms old.
C2_BlocksExactlyAtQuota ==
    \A c \in AllChannels :
        /\ SelectSeq(rateLimitMap[c], LAMBDA t : now - t < 60000) = admitted[c]
        /\ isRateLimited(rateLimitMap, c, now) <=> Len(admitted[c]) >= ClaimedQuota(c)

\* a channel whose last request was blocked, whose quota-many recorded
\* admissions are now 60,000 ms old or older, and which admits again
C2_Witness ==
    \E c \in Channels :
        /\ lastCall.channel = c
        /\ lastCall.blocked
        /\ Len(rateLimitMap[c]) = ClaimedQuota(c)
        /\ \A k \in 1..Len(rateLimitMap[c]) : now - rateLimitMap[c][k] >= 60000
        /\ ~isRateLimited(rateLimitMap, c, now)

\* C3: a handler step changes the recorded timestamps of the invoked channel
\* only, and whether a channel blocks is decided by its own timestamps: it is
\* the same with the lists of all other channels emptied.
C3_PerChannel ==
    /\ [][now' = now =>
            \A c \in AllChannels \ {lastCall'.channel} :
                rateLimitMap'[c] = rateLimitMap[c]]_vars
    /\ [](\A c \in AllChannels :
            isRateLimited(rateLimitMap, c, now)
                <=> isRateLimited([d \in AllChannels |->
                                      IF d = c THEN rateLimitMap[c] ELSE << >>], c, now))

\* process-pdf is blocked while load-agents, invoked before, holds its one
\* timestamp and is not blocked
C3_Witness ==
    /\ lastCall.channel = "process-pdf"
    /\ lastCall.blocked
    /\ Len(rateLimitMap["load-agents"]) = 1
    /\ ~isRateLimited(rateLimitMap, "load-agents", now)

\* C4: a rate limited request is answered with success false and the error
\* 'Rate limit exceeded. Please try again later.', and the handler runs no
\* validator and makes no FileManager, fs or pdf-parse call for it.
C4_RateLimitedDoesNothing ==
    lastCall.blocked =>
        /\ lastCall.result.kind = "object"
        /\ lastCall.result.success = FALSE
        /\ lastCall.result.error = Text.RateLimit
        /\ lastCall.calls = << >>

\* a save-agent request was rate limited
C4_Witness ==
    /\ lastCall.channel = "save-agent"
    /\ lastCall.blocked

\* C5: every handler but get-app-version resolves to an object whose success
\* is a boolean, and with success false the object has a non-empty error.
C5_ResultObject ==
    lastCall.channel \in Channels \ {"get-app-version"} =>
        /\ lastCall.result.kind = "object"
        /\ lastCall.result.success \in BOOLEAN
        /\ ~lastCall.result.success =>
            /\ "error" \in DOMAIN lastCall.result
            /\ Len(lastCall.result.error) > 0

\* pdf-parse threw an error whose message the sanitizer removes entirely,
\* and the handler answered with the default message
C5_Witness ==
    /\ lastCall.channel = "process-pdf"
    /\ lastCall.calls = <<"validatePdfPath", "fs.stat", "fs.readFile", "pdfParse">>
    /\ lastCall.result.success = FALSE
    /\ lastCall.result.error = Text.DefaultError

\* /^\d+\.\d+\.\d+$/
IsVersionString(v) ==
    \E i, j \in 1..Len(v) :
        /\ 1 < i /\ i + 1 < j /\ j < Len(v)
        /\ \A k \in 1..Len(v) : IF k \in {i, j} THEN v[k] = "." ELSE v[k] \in Digits

\* C6: every call of the get-app-version handler returns a version string
\* digits.digits.digits and never a result object.
C6_VersionIsAString ==
    lastCall.channel = "get-app-version" =>
        /\ lastCall.result.kind = "string"
        /\ IsVersionString(lastCall.result.value)

----------------------------------------------------------------------------
(* Properties of useAgentGenerator *)

\* C7: documents never holds more than 12 entries, whatever the sequence and
\* interleaving of addDocument, removeDocument and resetForm calls, several
\* files added by one handleFileSelect loop included.
C7_AtMostTwelveDocuments == Len(documents) <= 12

\* C8: in every reachable state templateData has exactly the 8 categories
\* coreFunctions, domainExpertise, inputTypes, validationRules, outputFormat,
\* performanceConstraints, styleGuide and integrationTargets, and each of them
\* is an array of exactly 12 strings, after any updateTemplateField (index in
\* range or not) and resetForm calls.
C8_TemplateShape ==
    /\ DOMAIN templateData =
           {"coreFunctions", "domainExpertise", "inputTypes", "validationRules",
            "outputFormat", "performanceConstraints", "styleGuide", "integrationTargets"}
    /\ \A category \in DOMAIN templateData :
           /\ DOMAIN templateData[category] = 0..11
           /\ \A i \in 0..11 : templateData[category][i] \in Seq(STRING)

\* the form after updates and resets: slots filled at both ends of a category
C8_Witness ==
    /\ templateData["integrationTargets"][0] # << >>
    /\ templateData["integrationTargets"][11] # << >>
    /\ generatedAgent # Null
    /\ generatedAgent.value.templateData # templateData

\* C9: updateTemplateField(category, index, value) sets slot index of that
\* category to value and leaves every other slot of that category, every other
\* category, documents, generatedAgent, error and loading unchanged; successive
\* updates to different slots all take effect.
C9_UpdateSetsOneSlot ==
    [][\A slot \in FormSlots, value \in FormValues :
          updateTemplateField(slot[1], slot[2], value) =>
              /\ slot[2] \in 0..11 => templateData'[slot[1]][slot[2]] = value
              /\ \A i \in 0..11 :
                     i # slot[2] =>
                         templateData'[slot[1]][i] = templateData[slot[1]][i]
              /\ \A category \in Categories :
                     category # slot[1] =>
                         templateData'[category] = templateData[category]
              /\ UNCHANGED <<documents, generatedAgent, error, loading>>]_vars

\* two slots of one category filled one after the other, next to a generated
\* agent, an error and a pending upload
C9_Witness ==
    /\ templateData["integrationTargets"][0] = <<"v">>
    /\ templateData["integrationTargets"][11] = <<"v">>
    /\ generatedAgent # Null
    /\ generatedAgent.value.templateData = EmptyTemplateData
    /\ error # Null
    /\ loading

----------------------------------------------------------------------------
(* Properties of the Head Architect *)

\* the template fields that are not blank after trim
FilledFields(data) ==
    {slot \in Categories \X (0..(SLOTS - 1)) : Trim(data[slot[1]][slot[2]]) # << >>}

C11_DocumentedTiers ==
    analysis # Null =>
        LET fields == Cardinality(FilledFields(templateData))
            docs == Len(documents)
        IN  analysis.value.complexity =
                IF fields > 50 \/ docs > 5 THEN "complex"
                ELSE IF fields >= 20 \/ docs >= 2 THEN "moderate"
                ELSE "simple"

\* C12: the two classifiers agree on every input: analyzeInputData returns
\* 'simple', 'moderate' or 'complex' exactly when estimateComplexity returns
\* 'low', 'medium' or 'high' respectively.
C12_ClassifiersAgree ==
    analysis # Null /\ estimate # Null =>
        /\ analysis.value.complexity = "simple" <=> estimate.value = "low"
        /\ analysis.value.complexity = "moderate" <=> estimate.value = "medium"
        /\ analysis.value.complexity = "complex" <=> estimate.value = "high"

C14_AlwaysResolves ==
    generation # Null /\ generation.phase = "done" =>
        LET result == generation.result
        IN  /\ result.kind = "resolved"
            /\ \/ /\ DOMAIN result.value = {"success", "specification", "metadata"}
                  /\ result.value.success = TRUE
                  /\ result.value.metadata.name = generation.agentName
                  /\ result.value.metadata.type = generation.agentType
               \/ /\ DOMAIN result.value = {"success", "error"}
                  /\ result.value.success = FALSE
            /\ generation.loaded.kind = "rejected" =>
                   /\ result.value.success = FALSE
                   /\ result.value.error = generation.loaded.message

\* loadTemplate rejected and the call resolved to success false
C14_Witness ==
    /\ generation # Null
    /\ generation.phase = "done"
    /\ generation.loaded.kind = "rejected"
    /\ generation.result = [kind |-> "resolved",
                            value |-> [success |-> FALSE, error |-> "Template load failed"]]

\* C15: the metadata of a successful generateSubagent has a complexity, which is
\* the complexity analyzeInputData computes for the same template data and
\* documents.
C15_MetadataComplexity ==
    (/\ generation # Null
     /\ generation.phase = "done"
     /\ generation.result.value.success) =>
        /\ "complexity" \in DOMAIN generation.result.value.metadata
        /\ generation.result.value.metadata.complexity =
               analyzeInputData(templateData, documents).complexity

\* C16: consultExistingAgents consults code-reviewer first and then every
\* suggested consultant once, in the order of analysis.suggestedConsultants, so
\* at most three after code-reviewer; no outcome of a consultation stops the
\* later ones, and the consultations it returns are exactly the responses of the
\* consultations that resolved with success true and a response, in call order.
C16_ConsultationOrder ==
    generation # Null /\ analysis # Null =>
        LET planned == <<"code-reviewer">> \o analysis.value.suggestedConsultants
            calls == generation.calls
            settled == generation.settled
            successful(o) == /\ o.kind = "resolved"
                             /\ o.value # Null
                             /\ o.value.success
                             /\ o.value.response # Null
            succeeded == SelectSeq(settled, successful)
        IN  /\ Len(planned) <= 4
            /\ Len(calls) \in 1..Len(planned)
            /\ calls = SubSeq(planned, 1, Len(calls))
            /\ generation.phase = "consult" => Len(settled) = Len(calls) - 1
            /\ generation.phase = "done" => calls = planned /\ Len(settled) = Len(planned)
            /\ \A n \in 1..Len(settled) :
                   successful(settled[n]) => settled[n].value.response.agentType = calls[n]
            /\ generation.consultations =
                   [n \in 1..Len(succeeded) |-> succeeded[n].value.response]
            /\ generation.phase = "done" =>
                   generation.result.value.metadata.consultedAgents =
                       [n \in 1..Len(succeeded) |-> succeeded[n].value.response.agentType]

\* code-reviewer and three suggested consultants were consulted; the second
\* consultation returned success false and the third was rejected, and the
\* responses of the first and the fourth are returned
C16_Witness ==
    /\ generation # Null
    /\ generation.phase = "done"
    /\ Len(generation.calls) = 4
    /\ generation.settled[1].kind = "resolved"
    /\ generation.settled[2] =
           [kind |-> "resolved", value |-> [success |-> FALSE, error |-> "Agent not found"]]
    /\ generation.settled[3].kind = "rejected"
    /\ generation.consultations =
           <<[agentType |-> "code-reviewer", available |-> TRUE],
             [agentType |-> generation.calls[4], available |-> TRUE]>>

\* C17: after resetForm, from any state, each of the 8 categories has its 12
\* slots and every one of the 96 slots is the empty string, documents is empty,
\* generatedAgent is null and error is null.
C17_ResetRestoresInitialData ==
    [][resetForm =>
          /\ DOMAIN templateData' = Categories
          /\ \A category \in Categories :
                 /\ DOMAIN templateData'[category] = 0..11
                 /\ \A index \in 0..11 : templateData'[category][index] = << >>
          /\ documents' = << >>
          /\ generatedAgent' = Null
          /\ error' = Null]_vars

\* a state resetForm is called in: a field is filled in, an agent has been
\* generated and the last upload has failed
C17_Witness ==
    /\ templateData # EmptyTemplateData
    /\ generatedAgent # Null
    /\ error # Null
    /\ uploads = << >>

C19_FailedSaveLosesNothing ==
    [][/\ SaveAgent => UNCHANGED <<generatedAgent, templateData, documents>>
       /\ SaveAgentSettles =>
              LET outcome == saving'.settled
              IN  /\ outcome.kind = "resolved" /\ ~outcome.value.success =>
                         /\ saving'.returned = Null
                         /\ error' = Some(outcome.value.error)
                         /\ UNCHANGED <<generatedAgent, templateData, documents>>
                  /\ outcome.kind = "rejected" =>
                         /\ saving'.returned = Null
                         /\ error' = Some(outcome.message)
                         /\ UNCHANGED <<generatedAgent, templateData, documents>>]_vars

\* the save was rejected: null is returned, the error is the message, and the
\* generated agent, the filled-in field and the documents are still there
C19_Witness ==
    /\ saving # Null
    /\ saving.phase = "returned"
    /\ saving.settled.kind = "rejected"
    /\ saving.returned = Null
    /\ error = Some("IPC error")
    /\ loading = FALSE
    /\ generatedAgent # Null
    /\ templateData # EmptyTemplateData
    /\ Len(documents) = MaxListed

\* C20: removeDocument(index) with index a position of the list (0 up to
\* length - 1) removes the document at that position and keeps the others in
\* their order; with any other index the list is unchanged.  templateData,
\* generatedAgent, error and loading are unchanged.
C20_RemovesExactlyOne ==
    [][\A index \in -2..(Len(documents) + 1) :
          removeDocument(index) =>
              /\ IF index \in 0..(Len(documents) - 1)
                 THEN /\ Len(documents') = Len(documents) - 1
                      /\ \A n \in 1..index : documents'[n] = documents[n]
                      /\ \A n \in (index + 1)..Len(documents') : documents'[n] = documents[n + 1]
                 ELSE documents' = documents
              /\ UNCHANGED <<templateData, generatedAgent, error, loading>>]_vars

\* the second of three documents has been removed
C20_Witness ==
    /\ Len(documents) = 2
    /\ documents[1].name = "a.pdf"
    /\ documents[2].name = "c.pdf"

----------------------------------------------------------------------------
(* Properties of useTheme *)

\* C21: every toggleTheme call flips the theme between dark and light and, when
\* window.electronAPI is there, passes the new theme to saveSettings.  At any
\* time after a call the theme displayed is the theme the last call set and
\* passed to saveSettings, whatever became of the saveSettings calls, and the
\* theme set by a call is the theme before the call that preceded it.
C21_ToggleFlipsAndSaves ==
    [][/\ ToggleTheme =>
              /\ {theme, theme'} = {"dark", "light"}
              /\ LET call == settingsCalls'.toggles[Len(settingsCalls'.toggles)]
                 IN  IF settingsCalls.electronAPI
                     THEN call.save = [theme |-> theme', state |-> "pending"]
                     ELSE call.save = Null
       /\ LET log == settingsCalls'.toggles
          IN  /\ log # << >> =>
                     /\ log[Len(log)].after = theme'
                     /\ log[Len(log)].save # Null => log[Len(log)].save.theme = theme'
              /\ \A n \in 1..(Len(log) - 1) : log[n + 1].after = log[n].before]_vars

\* the saved theme was light; two toggles later, the first saveSettings call
\* having failed, the theme is light again
C21_Witness ==
    /\ settingsCalls.load = "settled"
    /\ settingsCalls.togglesBefore = 0
    /\ Len(settingsCalls.toggles) = 2
    /\ settingsCalls.toggles[1].before = "light"
    /\ settingsCalls.toggles[1].save.state = "failed"
    /\ settingsCalls.toggles[2].save.theme = "light"
    /\ theme = "light"

\* C22: when loadSettings settles after a toggleTheme call, the theme stays
\* what it is, whatever loadSettings returns; when it settles before any
\* toggle, the theme becomes the theme of the settings if the load succeeded
\* and the settings have one, and stays dark otherwise.
C22_LoadNeverOverwritesToggle ==
    [][LoadSettingsSettles =>
          LET outcome == settingsCalls'.loaded
          IN  IF settingsCalls.toggles # << >> THEN theme' = theme
              ELSE IF /\ outcome.kind = "resolved"
                      /\ outcome.value.success
                      /\ "theme" \in DOMAIN outcome.value.settings
                   THEN theme' = outcome.value.settings.theme
                   ELSE theme' = "dark"]_vars

\* the theme was toggled to light before loadSettings resolved with dark, and
\* it is still light
C22_Witness ==
    /\ settingsCalls.load = "settled"
    /\ settingsCalls.togglesBefore = 1
    /\ Len(settingsCalls.toggles) = 1
    /\ settingsCalls.loaded.kind = "resolved"
    /\ settingsCalls.loaded.value = [success |-> TRUE, settings |-> [theme |-> "dark"]]
    /\ theme = "light"

----------------------------------------------------------------------------
(* Properties of useAgentGenerator under overlapping calls *)

\* C23: loading is true whenever an addDocument call or a saveAgent call is in
\* flight, also when several such calls overlap.
C23_LoadingWhileInFlight ==
    (uploads # << >> \/ (saving # Null /\ saving.phase = "called")) => loading

----------------------------------------------------------------------------
(* Properties of PDFAnalyzer and TemplateProcessor *)

\* C24: deduplicateAndRank returns at most 10 entries {term, count}, with
\* different terms, each term the key of an input item (the string itself, or
\* the term or the text of an object) and each count the number of input items
\* with that key, in order of non-increasing count; every distinct key has its
\* entry unless there are more than 10, and then no key left out has more
\* items than a key returned.  An empty input yields an empty list.
C24_RankedByCount ==
    ranked # Null =>
        LET result == ranked.value
            key(item) == IF "string" \in DOMAIN item THEN item.string
                         ELSE IF "term" \in DOMAIN item /\ item.term # "" THEN item.term
                         ELSE item.text
            Keys == {key(items[n]) : n \in 1..Len(items)}
            number(k) == Cardinality({n \in 1..Len(items) : key(items[n]) = k})
            Returned == {result[j].term : j \in 1..Len(result)}
        IN  /\ Len(result) <= 10
            /\ Len(result) = IF Cardinality(Keys) < 10 THEN Cardinality(Keys) ELSE 10
            /\ \A j \in 1..Len(result) :
                   /\ DOMAIN result[j] = {"term", "count"}
                   /\ result[j].term \in Keys
                   /\ result[j].count = number(result[j].term)
            /\ \A i, j \in 1..Len(result) : i < j =>
                   /\ result[i].term # result[j].term
                   /\ result[i].count >= result[j].count
            /\ \A k \in Keys \ Returned : \A j \in 1..Len(result) : number(k) <= result[j].count
            /\ items = << >> => result = << >>

\* twelve different strings of which the last two occur twice: the two come
\* first, in the order they were first seen, and ten entries are returned
C24_Witness ==
    /\ ranked # Null
    /\ Len(items) = 14
    /\ Len(ranked.value) = 10
    /\ ranked.value[1] = [term |-> "term10", count |-> 2]
    /\ ranked.value[2] = [term |-> "term11", count |-> 2]
    /\ ranked.value[3] = [term |-> "term0", count |-> 1]

\* C25: the text fillTemplate returns holds none of the eleven placeholders,
\* and it is the template with every placeholder replaced by its value as
\* given: the type, the joined fields of the category, the prefix.
C25_AllPlaceholdersReplaced ==
    filledTemplate # Null =>
        LET result == filledTemplate.value
            text == template.template
            metadata == template.metadata
            placeholders == <<"[SUBAGENT_TYPE]", "[CORE_FUNCTION]", "[DOMAIN]", "[INPUT_TYPES]",
                              "[VALIDATION]", "[OUTPUT_FORMAT]", "[PERFORMANCE]", "[STYLE_GUIDE]",
                              "[INTEGRATION_TARGETS]", "[PREFIX]", "[TEST_COVERAGE]">>
            value(k) == IF k = 1 THEN metadata.type
                        ELSE IF k = 10
                        THEN (IF metadata.prefix # Null THEN metadata.prefix.value
                              ELSE [n \in 1..Len(metadata.type) |->
                                       IF metadata.type[n] = "-" THEN "_" ELSE metadata.type[n]])
                        ELSE IF k = 11 THEN joinFields(<< >>)
                        ELSE joinFields(templateData[CategoryOrder[k - 1]])
            parts == [n \in 1..Len(text) |->
                         IF \E k \in 1..11 : text[n] = placeholders[k]
                         THEN value(CHOOSE k \in 1..11 : text[n] = placeholders[k])
                         ELSE <<text[n]>>]
            RECURSIVE verbatim(_, _)
            verbatim(from, to) ==
                IF from > to THEN << >>
                ELSE IF from = to THEN parts[from]
                ELSE verbatim(from, (from + to) \div 2) \o verbatim((from + to) \div 2 + 1, to)
        IN  /\ \A n \in 1..Len(result) : \A k \in 1..11 : result[n] # placeholders[k]
            /\ result = verbatim(1, Len(text))

----------------------------------------------------------------------------
(* Properties of the security boundary of the handlers *)

\* C26: the error of every result with success false is a non-empty string
\* without a Unix path (a '/' followed by a character that is not white space)
\* and without a Windows drive path (an upper-case letter, ':', a backslash and
\* a character that is not white space).
C26_NoPathInError ==
    (/\ lastCall.result.kind = "object"
     /\ ~lastCall.result.success) =>
        LET e == lastCall.result.error
        IN  /\ Len(e) > 0
            /\ \A n \in 1..(Len(e) - 1) : ~(e[n] = "/" /\ ~IsSpace(e[n + 1]))
            /\ \A n \in 1..(Len(e) - 3) :
                   ~(/\ e[n] \in UpperCaseLetters
                     /\ e[n + 1] = ":"
                     /\ e[n + 2] = "\\"
                     /\ ~IsSpace(e[n + 3]))

\* C27: the consult-agent handler calls fileManager.consultAgent only for a
\* request whose agentType is a string of 1 to 100 characters, all of them
\* letters, digits, hyphens or underscores, and whose query is a string of 1
\* to 10,000 characters; it calls it for every such request that is not rate
\* limited, and answers every other request with success false without
\* calling it.
C27_OnlyValidRequestsForwarded ==
    [][\A agentType \in AgentTypeInputs, query \in QueryInputs :
          ConsultAgent(agentType, query) =>
              LET forwarded == \E n \in 1..Len(lastCall'.calls) :
                                   lastCall'.calls[n] = "fileManager.consultAgent"
                  acceptable ==
                      /\ agentType.type = "string"
                      /\ Len(agentType.chars) \in 1..100
                      /\ \A n \in 1..Len(agentType.chars) :
                             agentType.chars[n] \in
                                 UpperCaseLetters \cup LowerCaseLetters \cup Digits \cup {"-", "_"}
                      /\ query.type = "string"
                      /\ query.length \in 1..10000
              IN  /\ forwarded => acceptable
                  /\ acceptable /\ ~lastCall'.blocked => forwarded
                  /\ ~acceptable =>
                         /\ ~forwarded
                         /\ lastCall'.result.kind = "object"
                         /\ lastCall'.result.success = FALSE]_vars

\* a request with an agent type such as '../x' or 'a.b' was admitted and
\* answered with the error of the character test, nothing else being called
C27_Witness ==
    /\ lastCall.channel = "consult-agent"
    /\ ~lastCall.blocked
    /\ lastCall.calls = <<"validateAgentType">>
    /\ lastCall.result = Failure(Msg.AgentTypeUnsafe)

\* C28: in the save-agent, save-settings and process-pdf handlers the validator
\* runs only for a request the rate limiter admitted, and for every such
\* request; fileManager.saveAgent, fileManager.saveSettings and fs.readFile are
\* called only for an admitted request and after the validator of the channel,
\* and a request whose handling stopped at the validator is answered with
\* success false; the admission of a request, valid or not, is in the history
\* of its channel.
C28_CheckThenValidateThenAct ==
    LET Guarded == [c \in {"save-agent", "save-settings", "process-pdf"} |->
                       CASE c = "save-agent" ->
                                [validator |-> "validateAgentData",
                                 effect |-> "fileManager.saveAgent"]
                         [] c = "save-settings" ->
                                [validator |-> "validateSettings",
                                 effect |-> "fileManager.saveSettings"]
                         [] c = "process-pdf" ->
                                [validator |-> "validatePdfPath", effect |-> "fs.readFile"]]
    IN  lastCall.channel \in DOMAIN Guarded =>
            LET channel == lastCall.channel
                at(name) == {n \in 1..Len(lastCall.calls) : lastCall.calls[n] = name}
                validated == at(Guarded[channel].validator)
                acted == at(Guarded[channel].effect)
            IN  /\ validated # {} <=> ~lastCall.blocked
                /\ \A n \in acted :
                       /\ ~lastCall.blocked
                       /\ \E m \in validated : m < n
                /\ validated # {} /\ acted = {} =>
                       /\ lastCall.result.kind = "object"
                       /\ lastCall.result.success = FALSE
                /\ ~lastCall.blocked =>
                       /\ rateLimitMap[channel] # << >>
                       /\ rateLimitMap[channel][Len(rateLimitMap[channel])] <= now
                       /\ Len(rateLimitMap[channel]) <= RATE_LIMITS[channel]

\* a save-settings request that failed validation took the last place of the
\* quota of its channel
C28_Witness ==
    /\ lastCall.channel = "save-settings"
    /\ ~lastCall.blocked
    /\ lastCall.calls = <<"validateSettings">>
    /\ lastCall.result.success = FALSE
    /\ Len(rateLimitMap["save-settings"]) = RATE_LIMITS["save-settings"]
    /\ rateLimitMap["save-settings"][RATE_LIMITS["save-settings"]] = now

----------------------------------------------------------------------------
(* Properties of the document list under overlapping calls *)

\* C29: no update of documents is lost when calls overlap.  An addDocument
\* call whose processPDF succeeded puts its document at the end of the list as
\* it is when the call resolves, leaving the others in place; one whose
\* processPDF failed or was rejected, and the start of a call, leave the list
\* as it is; removeDocument with a valid index takes one document out and keeps
\* the order of the others.  So the length is the number of successful calls
\* minus the number of removals, and the documents are in the order in which
\* their calls resolved.
C29_NoDocumentLost ==
    [][/\ \A k \in 1..Len(uploads), outcome \in ProcessPdfOutcomes :
              processPdfSettles(k, outcome) =>
                  IF outcome.kind = "resolved" /\ outcome.success
                  THEN /\ Len(documents') = Len(documents) + 1
                       /\ SubSeq(documents', 1, Len(documents)) = documents
                       /\ documents'[Len(documents')].name = Head(uploads[k].files).name
                       /\ documents'[Len(documents')].text = outcome.text
                  ELSE documents' = documents
       /\ \A index \in 0..(Len(documents) - 1) :
              removeDocument(index) =>
                  /\ Len(documents') = Len(documents) - 1
                  /\ \A n \in 1..Len(documents') :
                         documents'[n] = documents[IF n <= index THEN n ELSE n + 1]
       /\ Len(uploads') > Len(uploads) => documents' = documents]_vars

\* a call that started with an empty list is in flight, and the list holds
\* the document of a call that resolved meanwhile
C29_Witness ==
    /\ Len(uploads) = 1
    /\ uploads[1].documentsLength = 0
    /\ Head(uploads[1].files).name = "a.pdf"
    /\ Len(documents) = 1
    /\ documents[1].name = "c.pdf"

\* C30: a reset is not undone by work started before it.  Once resetForm has
\* run (templateData is empty from then on; a.pdf and c.pdf are selected, and
\* saveAgent is called, only before the reset, b.pdf only after it), the
\* settling of an addDocument call for a.pdf or c.pdf, or of the saveAgent
\* call, adds no document and leaves error null if it was null.
C30_ResetNotUndone ==
    [][templateData = EmptyTemplateData =>
          /\ \A k \in 1..Len(uploads), outcome \in ProcessPdfOutcomes :
                 Head(uploads[k].files).name # "b.pdf" /\ processPdfSettles(k, outcome) =>
                     /\ documents' = documents
                     /\ error = Null => error' = Null
          /\ SaveAgentSettles => (error = Null => error' = Null)]_vars

============================================================================
